---- MODULE Spec2Model ----
(***************************************************************************)
(* geonate: cellSize (common.py / raster.py) with its collaborator         *)
(* writeRaster (raster.py).                                                *)
(*                                                                         *)
(* Representation                                                          *)
(*   - a Python str is a sequence of one-character strings, so that        *)
(*     str.lower() is computed character by character;                     *)
(*   - a dict is a function whose domain is its key set;                   *)
(*   - a numpy array is a record [shape, val] with val a function from     *)
(*     index tuples (1-based) to numbers; an input array is its shape      *)
(*     only, because cellSize never reads the pixel values of its input;   *)
(*   - latitudes are whole degrees on a 30-degree grid, transform[0]       *)
(*     (pixel width) is in thousandths of a degree, areas are whole km2;   *)
(*     a float32 is the integer it holds, rounded to 24 significant bits.  *)
(***************************************************************************)
EXTENDS Integers, Sequences, FiniteSets, TLC

\* ------------------------------------------------------------------ bounds
MaxRows == 3
MaxCols == 2
MaxBands == 3
MaxPix == 5
MaxNeg == 2
MaxCalls == 2
MaxGeoRows == 6
MaxDist == 3
MaxVal == 2
MaxBreak == 3
MaxNdBands == 4
MaxWidth == 3

\* ------------------------------------------------------- python primitives
NoneVal == [none |-> TRUE]

UpperAlpha ==
  <<"A","B","C","D","E","F","G","H","I","J","K","L","M",
    "N","O","P","Q","R","S","T","U","V","W","X","Y","Z">>

LowerAlpha ==
  <<"a","b","c","d","e","f","g","h","i","j","k","l","m",
    "n","o","p","q","r","s","t","u","v","w","x","y","z">>

LowerChar(c) ==
  IF \E i \in DOMAIN UpperAlpha : UpperAlpha[i] = c
    THEN LowerAlpha[CHOOSE i \in DOMAIN UpperAlpha : UpperAlpha[i] = c]
    ELSE c

\* str.lower() left out: the comparison becomes case-sensitive
LowerCaseSensitive(s) == s

\* str.lower()
Lower(s) == [i \in 1..Len(s) |-> LowerChar(s[i])]

\* dict.update(upd)
DictUpdate(d, upd) ==
  [k \in (DOMAIN d) \cup (DOMAIN upd) |-> IF k \in DOMAIN upd THEN upd[k] ELSE d[k]]

Abs(x) == IF x < 0 THEN 0 - x ELSE x

RECURSIVE Pow2(_)
Pow2(k) == IF k = 0 THEN 1 ELSE 2 * Pow2(k - 1)

RECURSIVE ExcessBits(_, _)
ExcessBits(n, k) == IF n \div Pow2(k) < Pow2(24) THEN k ELSE ExcessBits(n, k + 1)

\* conversion of a non-negative number to float32: round to nearest, ties to
\* even, on a 24-bit significand
Round32(n) ==
  LET k == ExcessBits(n, 0)
      d == Pow2(k)
      qd == n \div d
      r == n % d
  IN  IF k = 0 THEN n
      ELSE IF (2 * r > d) \/ (2 * r = d /\ qd % 2 = 1)
        THEN (qd + 1) * d
        ELSE qd * d

\* float32 array element times a Python int
Mul32(x, f) == Round32(x * f)

\* ------------------------------------------------------------------ arrays
NoArray == [shape |-> <<>>, val |-> <<>>]

Indices(shape) ==
  IF Len(shape) = 2
    THEN (1..shape[1]) \X (1..shape[2])
    ELSE (1..shape[1]) \X (1..shape[2]) \X (1..shape[3])

\* array * scalar, element-wise, float32 result
MulArr(arr, f) ==
  [shape |-> arr.shape, val |-> [idx \in DOMAIN arr.val |-> Mul32(arr.val[idx], f)]]

\* ---------------------------------------------------- rasterio.DatasetReader
\* input.shape
HandleShape(h) == <<h.height, h.width>>

\* input.read()
ReadAll(h) == <<h.count, h.height, h.width>>

\* input.read(1)
ReadBand(h) == <<h.height, h.width>>

\* input.meta: a dict built anew on every access
HandleMeta(h) ==
  [driver |-> "GTiff", dtype |-> h.dtype, nodata |-> 0, width |-> h.width,
   height |-> h.height, count |-> h.count, crs |-> "EPSG:4326",
   transform |-> h.transform]

\* --------------------------------------------------------------- exceptions
Raised(exc, about, stage) ==
  [status |-> "raised", exc |-> exc, about |-> about, stage |-> stage,
   out |-> NoArray, meta |-> NoneVal, alias |-> FALSE]

NoError == Raised("", "", "")

\* ------------------------------------------------- writeRaster (raster.py)
\* the ndarray branch; cellSize always passes an array and a dict.  The file
\* is opened with the profile as it stands after the updates.
\* meta.update({'compress': ...})
writeRasterCompress(meta, compress) ==
  IF Lower(compress) = <<"d","e","f","l","a","t","e">>
    THEN DictUpdate(meta, [compress |-> "deflate"])
    ELSE DictUpdate(meta, [compress |-> "lzw"])

\* meta['count'] = ...
writeRasterCount(arr, meta) ==
  IF Len(arr.shape) = 2
    THEN DictUpdate(meta, [count |-> 1])
    ELSE DictUpdate(meta, [count |-> arr.shape[1]])

\* rasterio.open(output, 'w', **meta) and the band loop
writeRasterOpen(arr, path, meta) == [path |-> path.path, array |-> arr, profile |-> meta]

writeRaster(arr, path, meta, compress) ==
  LET m1 == writeRasterCompress(meta, compress)
      m2 == writeRasterCount(arr, m1)
  IN  [meta |-> m2, file |-> writeRasterOpen(arr, path, m2)]

\* ------------------------------------------------------ cellSize, by stage
\* "Check input data": binds dataset (its shape) and meta
CheckInput(input, meta) ==
  IF input.kind = "handle"
    THEN IF Len(HandleShape(input)) = 2
           THEN [ok |-> TRUE, dataset |-> ReadAll(input), meta |-> HandleMeta(input),
                 alias |-> FALSE, err |-> NoError]
           ELSE [ok |-> TRUE, dataset |-> ReadBand(input), meta |-> HandleMeta(input),
                 alias |-> FALSE, err |-> NoError]
  ELSE IF input.kind = "array"
    THEN IF meta = NoneVal
           THEN [ok |-> FALSE, dataset |-> <<>>, meta |-> NoneVal, alias |-> FALSE,
                 err |-> Raised("ValueError", "Please provide input metadata", "input")]
         ELSE IF input.shape[1] > 2    \* len(input) > 2
           THEN IF Len(input.shape) = 3
                  THEN [ok |-> TRUE, dataset |-> Tail(input.shape), meta |-> meta,
                        alias |-> TRUE, err |-> NoError]
                  ELSE [ok |-> FALSE, dataset |-> <<>>, meta |-> NoneVal, alias |-> FALSE,
                        err |-> Raised("IndexError", "too many indices for array", "input")]
         ELSE [ok |-> TRUE, dataset |-> input.shape, meta |-> meta,
               alias |-> TRUE, err |-> NoError]
  ELSE [ok |-> FALSE, dataset |-> <<>>, meta |-> NoneVal, alias |-> FALSE,
        err |-> Raised("ValueError", "Input data is not supported", "input")]

NoGeo == [pix_width |-> 0, upper_X |-> 0, upper_Y |-> 0, rows |-> 0, cols |-> 0,
          lower_X |-> 0, lower_Y |-> 0]

\* meta.get('width', ...) in place of meta['width']: a missing width passes
ReadMetaDefaultWidth(meta) ==
  IF "transform" \notin DOMAIN meta
    THEN [ok |-> FALSE, geo |-> NoGeo, err |-> Raised("KeyError", "transform", "meta")]
  ELSE IF "height" \notin DOMAIN meta
    THEN [ok |-> FALSE, geo |-> NoGeo, err |-> Raised("KeyError", "height", "meta")]
  ELSE LET transform == meta["transform"]
           rows == meta["height"]
           cols == IF "width" \in DOMAIN meta THEN meta["width"] ELSE 1
       IN  [ok |-> TRUE,
            geo |-> [pix_width |-> transform[1], upper_X |-> transform[3],
                     upper_Y |-> transform[6], rows |-> rows, cols |-> cols,
                     lower_X |-> transform[3] + transform[1] * cols,
                     lower_Y |-> transform[6] + transform[5] * rows],
            err |-> NoError]

\* rows taken from meta['count'] instead of meta['height']
ReadMetaRowsFromCount(meta) ==
  IF "transform" \notin DOMAIN meta
    THEN [ok |-> FALSE, geo |-> NoGeo, err |-> Raised("KeyError", "transform", "meta")]
  ELSE IF "count" \notin DOMAIN meta
    THEN [ok |-> FALSE, geo |-> NoGeo, err |-> Raised("KeyError", "count", "meta")]
  ELSE IF "width" \notin DOMAIN meta
    THEN [ok |-> FALSE, geo |-> NoGeo, err |-> Raised("KeyError", "width", "meta")]
  ELSE LET transform == meta["transform"]
           rows == meta["count"]
           cols == meta["width"]
       IN  [ok |-> TRUE,
            geo |-> [pix_width |-> transform[1], upper_X |-> transform[3],
                     upper_Y |-> transform[6], rows |-> rows, cols |-> cols,
                     lower_X |-> transform[3] + transform[1] * cols,
                     lower_Y |-> transform[6] + transform[5] * rows],
            err |-> NoError]

\* "Read metadata"
ReadMeta(meta) ==
  IF "transform" \notin DOMAIN meta
    THEN [ok |-> FALSE, geo |-> NoGeo, err |-> Raised("KeyError", "transform", "meta")]
  ELSE IF "height" \notin DOMAIN meta
    THEN [ok |-> FALSE, geo |-> NoGeo, err |-> Raised("KeyError", "height", "meta")]
  ELSE IF "width" \notin DOMAIN meta
    THEN [ok |-> FALSE, geo |-> NoGeo, err |-> Raised("KeyError", "width", "meta")]
  ELSE LET transform == meta["transform"]
           rows == meta["height"]
           cols == meta["width"]
       IN  [ok |-> TRUE,
            geo |-> [pix_width |-> transform[1], upper_X |-> transform[3],
                     upper_Y |-> transform[6], rows |-> rows, cols |-> cols,
                     lower_X |-> transform[3] + transform[1] * cols,
                     lower_Y |-> transform[6] + transform[5] * rows],
            err |-> NoError]

\* np.linspace(start, stop, num), num >= 0
linspace(start, stop, num) ==
  IF num = 1 THEN <<start>>
  ELSE [i \in 1..num |-> start + ((i - 1) * (stop - start)) \div (num - 1)]

\* pi * b**2 * (2*arctanh(e*sin(lat)) / (2*e) + sin(lat) / (zp*zm)) / 10**6 with
\* a = 6378137.0, b = 6356752.3142, at 30, 60 and 90 degrees, in whole km2
AreaTable == <<127088270, 220616960, 255032811>>

\* the latitude in [-90, 90] that has the same sine
SinFold(lat) ==
  LET m == lat % 360
  IN  IF m <= 90 THEN m ELSE IF m <= 270 THEN 180 - m ELSE m - 360

\* sinlats / (zp*zp) in place of sinlats / (zp*zm), at 30, 60 and 90 degrees
\* north and south
AreaTableZpZp ==
  [north |-> <<122090686, 205994475, 235701200>>,
   south |-> <<132512193, 237469702, 277809706>>]

AreaToEquatorZpZp(lat) ==
  LET f == SinFold(lat)
  IN  IF f = 0 THEN 0
      ELSE IF f > 0 THEN AreaTableZpZp.north[f \div 30]
      ELSE 0 - AreaTableZpZp.south[(0 - f) \div 30]

\* areas_to_equator, one latitude
AreaToEquator(lat) ==
  LET f == SinFold(lat)
  IN  IF f = 0 THEN 0
      ELSE IF f > 0 THEN AreaTable[f \div 30]
      ELSE 0 - AreaTable[(0 - f) \div 30]

\* np.diff
diff(s) == [i \in 1..(IF Len(s) = 0 THEN 0 ELSE Len(s) - 1) |-> s[i + 1] - s[i]]

\* np.abs left out: the sign of the difference follows the pixel height
ComputeAreasSigned(geo) ==
  IF geo.rows + 1 < 0
    THEN [ok |-> FALSE, areas_cells |-> <<>>,
          err |-> Raised("ValueError", "Number of samples must be non-negative", "compute")]
  ELSE LET lats == linspace(geo.upper_Y, geo.lower_Y, geo.rows + 1)
           areas_to_equator == [i \in 1..Len(lats) |-> AreaToEquator(lats[i])]
           areas_between_lats == diff(areas_to_equator)
       IN  [ok |-> TRUE,
            areas_cells |-> [i \in 1..Len(areas_between_lats) |->
                               (areas_between_lats[i] * geo.pix_width) \div (360 * 1000)],
            err |-> NoError]

\* np.diff left out: each row gets the cumulative area at its lower edge
ComputeAreasCumulative(geo) ==
  IF geo.rows + 1 < 0
    THEN [ok |-> FALSE, areas_cells |-> <<>>,
          err |-> Raised("ValueError", "Number of samples must be non-negative", "compute")]
  ELSE LET lats == linspace(geo.upper_Y, geo.lower_Y, geo.rows + 1)
           areas_to_equator == [i \in 1..Len(lats) |-> AreaToEquator(lats[i])]
       IN  [ok |-> TRUE,
            areas_cells |-> [i \in 1..(IF Len(lats) = 0 THEN 0 ELSE Len(lats) - 1) |->
                               (Abs(areas_to_equator[i + 1]) * geo.pix_width) \div (360 * 1000)],
            err |-> NoError]

\* lats .. areas_cells: the area of one pixel of each row, km2
ComputeAreas(geo) ==
  IF geo.rows + 1 < 0
    THEN [ok |-> FALSE, areas_cells |-> <<>>,
          err |-> Raised("ValueError", "Number of samples must be non-negative", "compute")]
  ELSE LET lats == linspace(geo.upper_Y, geo.lower_Y, geo.rows + 1)
           areas_to_equator == [i \in 1..Len(lats) |-> AreaToEquator(lats[i])]
           areas_between_lats == diff(areas_to_equator)
       IN  [ok |-> TRUE,
            areas_cells |-> [i \in 1..Len(areas_between_lats) |->
                               (Abs(areas_between_lats[i]) * geo.pix_width) \div (360 * 1000)],
            err |-> NoError]

\* the value written at a pixel depends on its column as well
FillColumnShift(shape, areas_cells) ==
  LET L == Len(areas_cells)
      R == IF Len(shape) = 2 THEN shape[1] ELSE shape[2]
  IN  IF L # R /\ L # 1
        THEN [ok |-> FALSE, cellArea |-> NoArray,
              err |-> Raised("ValueError", "could not broadcast input array", "fill")]
        ELSE [ok |-> TRUE,
              cellArea |-> [shape |-> shape,
                            val |-> [idx \in Indices(shape) |->
                                       Round32(areas_cells[((idx[Len(shape) - 1] + idx[Len(shape)]) % L) + 1])]],
              err |-> NoError]

\* np.zeros_like(dataset, dtype=np.float32) and the column loop; every
\* dataset here has at least one column, so the assignment runs
Fill(shape, areas_cells) ==
  LET L == Len(areas_cells)
      R == IF Len(shape) = 2 THEN shape[1] ELSE shape[2]
  IN  IF L # R /\ L # 1
        THEN [ok |-> FALSE, cellArea |-> NoArray,
              err |-> Raised("ValueError", "could not broadcast input array", "fill")]
        ELSE [ok |-> TRUE,
              cellArea |-> [shape |-> shape,
                            val |-> [idx \in Indices(shape) |->
                                       Round32(areas_cells[IF L = 1 THEN 1 ELSE idx[Len(shape) - 1]])]],
              err |-> NoError]

\* cellSize up to and including the column loop
CellArea(input, meta) ==
  LET c == CheckInput(input, meta)
  IN  IF ~c.ok THEN [ok |-> FALSE, cellArea |-> NoArray, meta |-> NoneVal,
                     alias |-> FALSE, err |-> c.err]
      ELSE LET g == ReadMeta(c.meta)
           IN  IF ~g.ok THEN [ok |-> FALSE, cellArea |-> NoArray, meta |-> NoneVal,
                              alias |-> FALSE, err |-> g.err]
               ELSE LET a == ComputeAreas(g.geo)
                    IN  IF ~a.ok THEN [ok |-> FALSE, cellArea |-> NoArray, meta |-> NoneVal,
                                       alias |-> FALSE, err |-> a.err]
                        ELSE LET f == Fill(c.dataset, a.areas_cells)
                             IN  IF ~f.ok THEN [ok |-> FALSE, cellArea |-> NoArray,
                                                meta |-> NoneVal, alias |-> FALSE,
                                                err |-> f.err]
                                 ELSE [ok |-> TRUE, cellArea |-> f.cellArea,
                                       meta |-> c.meta, alias |-> c.alias, err |-> NoError]

\* a new dict with the two fields only
UpdateMetaFresh(meta) == [dtype |-> "float32", count |-> 1]

\* "Update metadata"
UpdateMeta(meta) == DictUpdate(meta, [dtype |-> "float32", count |-> 1])

\* square metres taken as 1000 per km2
ConvertUnitThousand(unit, cellArea) ==
  IF Lower(unit) = <<"k","m">> \/ Lower(unit) = <<"k","i","l","o","m","e","t","e","r">>
    THEN [bound |-> TRUE, outArea |-> cellArea]
  ELSE IF Lower(unit) = <<"m">> \/ Lower(unit) = <<"m","e","t","e","r">>
    THEN [bound |-> TRUE, outArea |-> MulArr(cellArea, 1000)]
  ELSE IF Lower(unit) = <<"h","a">> \/ Lower(unit) = <<"h","e","c","t","a","r","e">>
    THEN [bound |-> TRUE, outArea |-> MulArr(cellArea, 10000)]
  ELSE [bound |-> FALSE, outArea |-> NoArray]

\* "Convert unit": outArea stays unbound when no branch is taken
ConvertUnit(unit, cellArea) ==
  IF Lower(unit) = <<"k","m">> \/ Lower(unit) = <<"k","i","l","o","m","e","t","e","r">>
    THEN [bound |-> TRUE, outArea |-> cellArea]
  ELSE IF Lower(unit) = <<"m">> \/ Lower(unit) = <<"m","e","t","e","r">>
    THEN [bound |-> TRUE, outArea |-> MulArr(cellArea, 1000000)]
  ELSE IF Lower(unit) = <<"h","a">> \/ Lower(unit) = <<"h","e","c","t","a","r","e">>
    THEN [bound |-> TRUE, outArea |-> MulArr(cellArea, 10000)]
  ELSE [bound |-> FALSE, outArea |-> NoArray]

\* the whole call: what the caller gets, the caller's mapping afterwards (the
\* dict passed as meta is the object the function updates), the files written
cellSize(input, unit, meta, output, files) ==
  LET p == CellArea(input, meta)
  IN  IF ~p.ok THEN [result |-> p.err, meta |-> meta, files |-> files]
      ELSE LET m2 == UpdateMeta(p.meta)
               cu == ConvertUnit(unit, p.cellArea)
           IN  IF ~cu.bound
                 THEN [result |-> Raised("UnboundLocalError", "outArea", "output"),
                       meta |-> IF p.alias THEN m2 ELSE meta, files |-> files]
               ELSE IF output # NoneVal
                 THEN LET w == writeRaster(cu.outArea, output, m2, <<"l","z","w">>)
                      IN  [result |-> [status |-> "none", exc |-> "", about |-> "",
                                       stage |-> "done", out |-> NoArray,
                                       meta |-> NoneVal, alias |-> FALSE],
                           meta |-> IF p.alias THEN w.meta ELSE meta,
                           files |-> Append(files, w.file)]
               ELSE [result |-> [status |-> "returned", exc |-> "", about |-> "",
                                 stage |-> "done", out |-> cu.outArea, meta |-> m2,
                                 alias |-> p.alias],
                     meta |-> IF p.alias THEN m2 ELSE meta, files |-> files]

\* ------------------------------------------------------------- the caller
VARIABLES
  callInput,      \* the object passed as input
  callUnit,       \* the str passed as unit
  callOutput,     \* the path passed as output, or None
  callerMeta,     \* the caller's dict passed as meta (or None), as it is now
  metaBefore,     \* callerMeta when the last call began
  files,          \* the rasters written so far
  filesBefore,    \* files when the last call began
  result,         \* how the last call ended
  ncalls,         \* calls made
  heap,           \* concurrent callers: the dict objects, by identity
  threads,        \* concurrent callers: each invocation's arguments and locals
  fnArgs,         \* a call of one of the other functions: its arguments
  fnRet,          \* ... and how it ended
  disk,           \* the ./tmp/ folder and the raster file in it
  jobs            \* concurrent crop / mask / extractValues: arguments and locals

seqVars == <<callInput, callUnit, callOutput, callerMeta, metaBefore, files,
             filesBefore, result, ncalls>>

concVars == <<heap, threads>>

fnVars == <<fnArgs, fnRet>>

tmpVars == <<disk, jobs>>

vars == <<seqVars, concVars, fnVars, tmpVars>>

OutPath == [path |-> "area.tif"]

Transforms ==
  {<<pw, 0, 100, 0, ph, uy>> : pw \in 1..MaxPix, ph \in {0 - 30, 30}, uy \in {0, 90}}

SampleTransform == <<1, 0, 100, 0, 0 - 30, 90>>

Handles(ts) ==
  {[kind |-> "handle", count |-> b, height |-> r, width |-> c, dtype |-> "int16",
    transform |-> t] : b \in 1..MaxBands, r \in 1..MaxRows, c \in 1..MaxCols, t \in ts}

Arrays2D == {[kind |-> "array", shape |-> <<r, c>>] : r \in 1..MaxRows, c \in 1..MaxCols}

Arrays3D ==
  {[kind |-> "array", shape |-> <<b, r, c>>] :
     b \in 1..MaxBands, r \in 1..MaxRows, c \in 1..MaxCols}

\* something that is neither a DatasetReader nor an ndarray
OtherInput == [kind |-> "other"]

\* zero or one value
Opt(S) == {<<>>} \cup {<<x>> : x \in S}

\* a metadata dict; transform, height and width are present when given
MakeMeta(t, h, w) ==
  LET m0 == [dtype |-> "int16", count |-> 3, crs |-> "EPSG:4326"]
      m1 == IF Len(t) = 1 THEN DictUpdate(m0, [transform |-> t[1]]) ELSE m0
      m2 == IF Len(h) = 1 THEN DictUpdate(m1, [height |-> h[1]]) ELSE m1
  IN  IF Len(w) = 1 THEN DictUpdate(m2, [width |-> w[1]]) ELSE m2

Units ==
  { <<"k","m">>, <<"K","m">>, <<"k","M">>, <<"K","M">>,
    <<"k","i","l","o","m","e","t","e","r">>, <<"K","i","l","o","m","e","t","e","r">>,
    <<"K","I","L","O","M","E","T","E","R">>,
    <<"m">>, <<"M">>,
    <<"m","e","t","e","r">>, <<"M","e","t","e","r">>, <<"M","E","T","E","R">>,
    <<"h","a">>, <<"H","a">>, <<"h","A">>, <<"H","A">>,
    <<"h","e","c","t","a","r","e">>, <<"H","e","c","t","a","r","e">>,
    <<"H","E","C","T","A","R","E">>,
    <<"m","i","l","e">>, <<"c","m">>, <<"k","m","2">>, <<>> }

\* every kind and shape of input, with complete, incomplete and ill-shaped
\* metadata
InitShapes ==
  /\ callInput \in Handles({SampleTransform}) \cup Arrays2D \cup Arrays3D \cup {OtherInput}
  /\ callerMeta \in {NoneVal} \cup
       {MakeMeta(t, h, w) : t \in Opt({SampleTransform}),
                            h \in Opt((0 - MaxNeg)..MaxRows),
                            w \in Opt((0 - 1)..MaxCols)}
  /\ callUnit \in {<<"k","m">>, <<"M">>, <<"m","i","l","e">>}
  /\ callOutput \in {NoneVal, OutPath}

\* every unit token and every transform, on well-formed 2 x 2 inputs
InitUnits ==
  /\ callUnit \in Units
  /\ callOutput \in {NoneVal, OutPath}
  /\ \E t \in Transforms :
       \/ /\ callInput \in {[kind |-> "array", shape |-> <<2, 2>>],
                            [kind |-> "array", shape |-> <<2, 2, 2>>]}
          /\ callerMeta = MakeMeta(<<t>>, <<2>>, <<2>>)
       \/ /\ callInput = [kind |-> "handle", count |-> 2, height |-> 2, width |-> 2,
                          dtype |-> "int16", transform |-> t]
          /\ callerMeta = NoneVal

\* single-band rasters of 1 to MaxGeoRows rows of 30 degrees, starting at any
\* latitude of the grid, north-up and south-up
InitGeo ==
  /\ callUnit = <<"k","m">>
  /\ callOutput = NoneVal
  /\ callerMeta = NoneVal
  /\ \E r \in 1..MaxGeoRows, pw \in {1, MaxPix}, ph \in {0 - 30, 30},
        uy \in {0 - 90, 0 - 60, 0 - 30, 0, 30, 60, 90} :
       callInput = [kind |-> "handle", count |-> 1, height |-> r, width |-> 1,
                    dtype |-> "int16", transform |-> <<pw, 0, 100, 0, ph, uy>>]

IdleResult ==
  [status |-> "idle", exc |-> "", about |-> "", stage |-> "",
   out |-> NoArray, meta |-> NoneVal, alias |-> FALSE]

\* no concurrent callers
ConcIdle == heap = <<>> /\ threads = <<>>

\* no call of the other functions
FnIdle == fnArgs = NoneVal /\ fnRet = NoneVal

TmpIdle == disk = NoneVal /\ jobs = <<>>

Init ==
  /\ InitShapes \/ InitUnits \/ InitGeo
  /\ metaBefore = callerMeta
  /\ files = <<>>
  /\ filesBefore = <<>>
  /\ result = IdleResult
  /\ ncalls = 0
  /\ ConcIdle
  /\ FnIdle
  /\ TmpIdle

\* one call of cellSize(input, unit, meta, output) by the caller
Call ==
  /\ ncalls < MaxCalls
  /\ LET c == cellSize(callInput, callUnit, callerMeta, callOutput, files)
     IN  /\ result' = c.result
         /\ callerMeta' = c.meta
         /\ files' = c.files
  /\ metaBefore' = callerMeta
  /\ filesBefore' = files
  /\ ncalls' = ncalls + 1
  /\ UNCHANGED <<callInput, callUnit, callOutput, concVars, fnVars, tmpVars>>

Next == Call

Spec == Init /\ [][Next]_vars

\* ------------------------------------------------ two concurrent callers
\* Two invocations of cellSize run at the same time; their statements
\* interleave.  A dict passed as meta is an object on the heap, which the two
\* invocations may both have been given; input.meta of a raster handle is a
\* dict of the invocation's own.
Tids == {1, 2}

\* no sequential caller
SeqIdle ==
  /\ callInput = OtherInput
  /\ callUnit = <<>>
  /\ callOutput = NoneVal
  /\ callerMeta = NoneVal
  /\ metaBefore = NoneVal
  /\ files = <<>>
  /\ filesBefore = <<>>
  /\ result = IdleResult
  /\ ncalls = 0

\* the dict each caller built before the calls
ConcMeta == MakeMeta(<<SampleTransform>>, <<2>>, <<2>>)

NoConv == [bound |-> FALSE, outArea |-> NoArray]

NewThread(input, unit, ref, output) ==
  [pc |-> "check", input |-> input, unit |-> unit, ref |-> ref, output |-> output,
   metaAtStart |-> NoneVal, shared |-> FALSE, priv |-> NoneVal, dataset |-> <<>>,
   geo |-> NoGeo, cellArea |-> NoArray, conv |-> NoConv, result |-> IdleResult,
   written |-> <<>>]

ConcInputs ==
  {[kind |-> "array", shape |-> <<2, 2>>], [kind |-> "array", shape |-> <<2, 2, 2>>],
   [kind |-> "handle", count |-> 2, height |-> 2, width |-> 2, dtype |-> "int16",
    transform |-> SampleTransform]}

ConcUnits == {<<"k","m">>, <<"m","i","l","e">>}

InitConc ==
  /\ heap = [d \in {1, 2} |-> ConcMeta]
  /\ \E i1 \in ConcInputs, i2 \in ConcInputs, u1 \in ConcUnits, u2 \in ConcUnits,
        o1 \in {NoneVal, OutPath}, o2 \in {NoneVal, OutPath}, r2 \in {1, 2} :
       threads = [t \in Tids |-> IF t = 1 THEN NewThread(i1, u1, 1, o1)
                                 ELSE NewThread(i2, u2, r2, o2)]
  /\ SeqIdle
  /\ FnIdle
  /\ TmpIdle

\* the dict the invocation's local name meta is bound to, as it is now
CurMeta(t) == IF threads[t].shared THEN heap[threads[t].ref] ELSE threads[t].priv

\* an update of that dict, in place
SetMeta(t, m, th) ==
  IF threads[t].shared
    THEN /\ heap' = [heap EXCEPT ![threads[t].ref] = m]
         /\ threads' = [threads EXCEPT ![t] = th]
    ELSE /\ heap' = heap
         /\ threads' = [threads EXCEPT ![t] = [th EXCEPT !.priv = m]]

Finish(th, res) == [th EXCEPT !.pc = "done", !.result = res]

\* lines 264-282
ConcCheck(t) ==
  /\ threads[t].pc = "check"
  /\ LET th == threads[t]
         c == CheckInput(th.input, heap[th.ref])
         th1 == [th EXCEPT !.metaAtStart = heap[th.ref]]
     IN  threads' = [threads EXCEPT ![t] =
           IF ~c.ok THEN Finish(th1, c.err)
           ELSE [th1 EXCEPT !.pc = "read", !.dataset = c.dataset, !.shared = c.alias,
                            !.priv = IF c.alias THEN NoneVal ELSE c.meta]]
  /\ UNCHANGED <<heap, seqVars, fnVars, tmpVars>>

\* lines 284-292
ConcReadMeta(t) ==
  /\ threads[t].pc = "read"
  /\ LET g == ReadMeta(CurMeta(t))
     IN  threads' = [threads EXCEPT ![t] =
           IF ~g.ok THEN Finish(@, g.err) ELSE [@ EXCEPT !.pc = "compute", !.geo = g.geo]]
  /\ UNCHANGED <<heap, seqVars, fnVars, tmpVars>>

\* lines 294-325
ConcCompute(t) ==
  /\ threads[t].pc = "compute"
  /\ LET a == ComputeAreas(threads[t].geo)
         f == Fill(threads[t].dataset, a.areas_cells)
     IN  threads' = [threads EXCEPT ![t] =
           IF ~a.ok THEN Finish(@, a.err)
           ELSE IF ~f.ok THEN Finish(@, f.err)
           ELSE [@ EXCEPT !.pc = "update", !.cellArea = f.cellArea]]
  /\ UNCHANGED <<heap, seqVars, fnVars, tmpVars>>

\* line 328
ConcUpdate(t) ==
  /\ threads[t].pc = "update"
  /\ SetMeta(t, UpdateMeta(CurMeta(t)), [threads[t] EXCEPT !.pc = "convert"])
  /\ UNCHANGED <<seqVars, fnVars, tmpVars>>

\* lines 330-336
ConcConvert(t) ==
  /\ threads[t].pc = "convert"
  /\ threads' = [threads EXCEPT ![t] =
       [@ EXCEPT !.pc = "output",
                 !.conv = ConvertUnit(threads[t].unit, threads[t].cellArea)]]
  /\ UNCHANGED <<heap, seqVars, fnVars, tmpVars>>

\* lines 339-342 when nothing is written: the return, or the failure to
\* evaluate outArea
ConcReturn(t) ==
  /\ threads[t].pc = "output"
  /\ ~threads[t].conv.bound \/ threads[t].output = NoneVal
  /\ threads' = [threads EXCEPT ![t] =
       IF ~@.conv.bound THEN Finish(@, Raised("UnboundLocalError", "outArea", "output"))
       ELSE Finish(@, [status |-> "returned", exc |-> "", about |-> "", stage |-> "done",
                       out |-> @.conv.outArea, meta |-> CurMeta(t),
                       alias |-> @.shared])]
  /\ UNCHANGED <<heap, seqVars, fnVars, tmpVars>>

\* line 340, into writeRaster: meta.update({'compress': 'lzw'})
ConcWriteCompress(t) ==
  /\ threads[t].pc = "output"
  /\ threads[t].conv.bound /\ threads[t].output # NoneVal
  /\ SetMeta(t, writeRasterCompress(CurMeta(t), <<"l","z","w">>),
             [threads[t] EXCEPT !.pc = "wcount"])
  /\ UNCHANGED <<seqVars, fnVars, tmpVars>>

\* writeRaster: meta['count'] = ...
ConcWriteCount(t) ==
  /\ threads[t].pc = "wcount"
  /\ SetMeta(t, writeRasterCount(threads[t].conv.outArea, CurMeta(t)),
             [threads[t] EXCEPT !.pc = "wopen"])
  /\ UNCHANGED <<seqVars, fnVars, tmpVars>>

\* writeRaster: the file is opened with the dict as it is now; cellSize then
\* returns None
ConcWriteOpen(t) ==
  /\ threads[t].pc = "wopen"
  /\ threads' = [threads EXCEPT ![t] =
       [Finish(@, [status |-> "none", exc |-> "", about |-> "", stage |-> "done",
                   out |-> NoArray, meta |-> NoneVal, alias |-> FALSE])
          EXCEPT !.written = <<writeRasterOpen(threads[t].conv.outArea,
                                               threads[t].output, CurMeta(t))>>]]
  /\ UNCHANGED <<heap, seqVars, fnVars, tmpVars>>

NextConc ==
  \E t \in Tids :
    \/ ConcCheck(t)
    \/ ConcReadMeta(t)
    \/ ConcCompute(t)
    \/ ConcUpdate(t)
    \/ ConcConvert(t)
    \/ ConcReturn(t)
    \/ ConcWriteCompress(t)
    \/ ConcWriteCount(t)
    \/ ConcWriteOpen(t)

SpecConc == InitConc /\ [][NextConc]_vars

\* ------------------------------------------------------------ meter2degree
\* metres in one degree of arc at the equator
MetersPerDegree == 111320

\* a latitude argument: a number of degrees, None, or left out of the call
Lat(d) == [given |-> TRUE, none |-> FALSE, deg |-> d]

LatNone == [given |-> TRUE, none |-> TRUE, deg |-> 0]

LatOmitted == [given |-> FALSE, none |-> FALSE, deg |-> 0]

\* a float64 result: finite num / (den * 10^exp), inf, nan, or an exception
Float(kind, num, den, exp) ==
  [kind |-> kind, exc |-> "", num |-> num, den |-> den, exp |-> exp]

FloatRaised(exc) == [kind |-> "raised", exc |-> exc, num |-> 0, den |-> 0, exp |-> 0]

\* np.cos(np.radians(deg)) as sig * 10^exp, to four significant digits.
\* np.radians(90) is the double nearest to pi/2, and its cosine is
\* 6.123233995736766e-17, not zero.
CosDeg(deg) ==
  CASE Abs(deg) = 0 -> [sig |-> 1, exp |-> 0]
    [] Abs(deg) = 30 -> [sig |-> 8660, exp |-> 0 - 4]
    [] Abs(deg) = 60 -> [sig |-> 5000, exp |-> 0 - 4]
    [] Abs(deg) = 90 -> [sig |-> 6123, exp |-> 0 - 20]

\* 111320 * np.cos(...)
Scale(k, c) == [sig |-> k * c.sig, exp |-> c.exp]

\* input / np.float64: a zero divisor gives inf or nan with a warning, no
\* exception
TrueDivide(x, d) ==
  IF d.sig = 0
    THEN IF x = 0 THEN Float("nan", 0, 0, 0) ELSE Float("inf", x, 0, 0)
    ELSE Float("finite", x, d.sig, d.exp)

\* common.meter2degree(input, latitude=None)
meter2degreeCommon(input, latitude) ==
  LET lat == IF latitude.given THEN latitude ELSE LatNone
  IN  IF lat.none
        THEN TrueDivide(input, Scale(MetersPerDegree, CosDeg(0)))
        ELSE TrueDivide(input, Scale(MetersPerDegree, CosDeg(lat.deg)))

\* tools.meter2degree(input, latitude): latitude has no default
meter2degreeTools(input, latitude) ==
  IF ~latitude.given THEN FloatRaised("TypeError")
  ELSE IF latitude.none THEN FloatRaised("TypeError")
  ELSE TrueDivide(input, Scale(MetersPerDegree, CosDeg(latitude.deg)))

meter2degree(module, input, latitude) ==
  IF module = "common" THEN meter2degreeCommon(input, latitude)
  ELSE meter2degreeTools(input, latitude)

LatGrid == {0 - 90, 0 - 60, 0 - 30, 0, 30, 60, 90}

Meter2DegreeArgs ==
  {[fn |-> "meter2degree", module |-> m, input |-> x, latitude |-> l] :
     m \in {"common", "tools"}, x \in 0..MaxDist,
     l \in {LatNone, LatOmitted} \cup {Lat(d) : d \in LatGrid}}

\* ------------------------------------------------- arrays with pixel values
\* input.read() of a handle that carries its pixels
ReadAllData(h) == [shape |-> ReadAll(h), val |-> h.data]

\* input.read(1)
ReadBandData(h) ==
  [shape |-> ReadBand(h),
   val |-> [idx \in Indices(ReadBand(h)) |-> h.data[<<1, idx[1], idx[2]>>]]]

\* dataset[k, :, :], k counted from zero
Band(dataset, k) ==
  [shape |-> <<dataset.shape[2], dataset.shape[3]>>,
   val |-> [idx \in Indices(<<dataset.shape[2], dataset.shape[3]>>) |->
              dataset.val[<<k + 1, idx[1], idx[2]>>]]]

Returned(out, meta, alias) ==
  [status |-> "returned", exc |-> "", about |-> "", stage |-> "done",
   out |-> out, meta |-> meta, alias |-> alias]

ReturnedNone ==
  [status |-> "none", exc |-> "", about |-> "", stage |-> "done",
   out |-> NoArray, meta |-> NoneVal, alias |-> FALSE]

\* -------------------------------------------------- reclassify (raster.py)
RcCheckInput(input, meta) ==
  IF input.kind = "handle"
    THEN IF Len(HandleShape(input)) = 2
           THEN [ok |-> TRUE, err |-> NoError, dataset |-> ReadAllData(input),
                 meta |-> HandleMeta(input), alias |-> FALSE]
         ELSE IF HandleShape(input)[1] > 1
           THEN [ok |-> FALSE, err |-> Raised("ValueError", "Input data has more than one band", "input"),
                 dataset |-> NoArray, meta |-> meta, alias |-> FALSE]
         ELSE [ok |-> TRUE, err |-> NoError, dataset |-> ReadBandData(input),
               meta |-> HandleMeta(input), alias |-> FALSE]
  ELSE IF input.kind = "array"
    THEN IF meta = NoneVal
           THEN [ok |-> FALSE, err |-> Raised("ValueError", "It requires metadata", "input"),
                 dataset |-> NoArray, meta |-> meta, alias |-> FALSE]
         ELSE IF Len(input.shape) > 2 /\ input.shape[1] > 1
           THEN [ok |-> FALSE, err |-> Raised("ValueError", "Input data has more than one band", "input"),
                 dataset |-> NoArray, meta |-> meta, alias |-> FALSE]
         ELSE [ok |-> TRUE, err |-> NoError,
               dataset |-> [shape |-> input.shape, val |-> input.val],
               meta |-> meta, alias |-> TRUE]
  ELSE [ok |-> FALSE, err |-> Raised("ValueError", "Input data is not supported", "input"),
        dataset |-> NoArray, meta |-> meta, alias |-> FALSE]

\* np.unique(dataset)
unique(dataset) == {dataset.val[idx] : idx \in DOMAIN dataset.val}

\* (dataset >= breakpoints[i]) & (dataset < breakpoints[i+1]), i counted from one
InInterval(v, breakpoints, i) == v >= breakpoints[i] /\ v < breakpoints[i + 1]

\* the loop over the classes: each assignment over the ones before it
RECURSIVE AssignIntervals(_, _, _, _, _)
AssignIntervals(dataset, breakpoints, classes, i, acc) ==
  IF i > Len(classes) THEN acc
  ELSE AssignIntervals(dataset, breakpoints, classes, i + 1,
         [idx \in DOMAIN acc |->
            IF InInterval(dataset.val[idx], breakpoints, i) THEN classes[i] ELSE acc[idx]])

RECURSIVE AssignEquals(_, _, _, _, _)
AssignEquals(dataset, breakpoints, classes, i, acc) ==
  IF i > Len(classes) THEN acc
  ELSE AssignEquals(dataset, breakpoints, classes, i + 1,
         [idx \in DOMAIN acc |->
            IF dataset.val[idx] = breakpoints[i] THEN classes[i] ELSE acc[idx]])

BreakpointsError ==
  Raised("ValueError", "Number of classes must be equal to number of breakpoints minus 1", "compute")

\* the branch on len(uniques) == len(classes), then on len(breakpoints)
Classify(dataset, breakpoints, classes) ==
  LET zeros == [idx \in DOMAIN dataset.val |-> 0]
  IN  IF Cardinality(unique(dataset)) = Len(classes)
        THEN IF Len(breakpoints) = Len(classes)
               THEN [ok |-> TRUE, err |-> NoError,
                     val |-> AssignEquals(dataset, breakpoints, classes, 1, zeros)]
             ELSE IF Len(breakpoints) = Len(classes) - 1
               \* breakpoints[i+1] runs off the end of the list
               THEN [ok |-> FALSE, err |-> Raised("IndexError", "breakpoints", "compute"),
                     val |-> zeros]
             ELSE [ok |-> FALSE, err |-> BreakpointsError, val |-> zeros]
      ELSE IF Len(breakpoints) = Len(classes) + 1
        THEN [ok |-> TRUE, err |-> NoError,
              val |-> AssignIntervals(dataset, breakpoints, classes, 1, zeros)]
      ELSE [ok |-> FALSE, err |-> BreakpointsError, val |-> zeros]

reclassify(input, breakpoints, classes, meta, output, fs) ==
  LET c == RcCheckInput(input, meta)
  IN  IF ~c.ok THEN [result |-> c.err, meta |-> meta, files |-> fs]
      ELSE LET r == Classify(c.dataset, breakpoints, classes)
               reclassified == [shape |-> c.dataset.shape, val |-> r.val]
           IN  IF ~r.ok THEN [result |-> r.err, meta |-> meta, files |-> fs]
               ELSE IF output # NoneVal
                 THEN LET w == writeRaster(reclassified, output, c.meta, <<"l","z","w">>)
                      IN  [result |-> ReturnedNone,
                           meta |-> IF c.alias THEN w.meta ELSE meta,
                           files |-> Append(fs, w.file)]
               ELSE [result |-> Returned(reclassified, c.meta, c.alias),
                     meta |-> meta, files |-> fs]

\* ---------------------------------------- normalizedDifference (raster.py)
NdCheckInput(input, meta) ==
  IF input.kind = "handle"
    THEN [ok |-> TRUE, err |-> NoError, dataset |-> ReadAllData(input),
          meta |-> HandleMeta(input), alias |-> FALSE]
  ELSE IF input.kind = "array"
    THEN IF meta = NoneVal
           THEN [ok |-> FALSE, err |-> Raised("ValueError", "It requires metadata", "input"),
                 dataset |-> NoArray, meta |-> meta, alias |-> FALSE]
         ELSE [ok |-> TRUE, err |-> NoError,
               dataset |-> [shape |-> input.shape, val |-> input.val],
               meta |-> meta, alias |-> TRUE]
  ELSE [ok |-> FALSE, err |-> Raised("ValueError", "Input data is not supported", "input"),
        dataset |-> NoArray, meta |-> meta, alias |-> FALSE]

RECURSIVE GCD(_, _)
GCD(a, b) == IF b = 0 THEN a ELSE GCD(b, a % b)

NaN == [nan |-> TRUE, num |-> 0, den |-> 1]

\* num / den in lowest terms, den > 0
Fraction(num, den) ==
  LET g == GCD(Abs(num), Abs(den))
      sgn == IF den < 0 THEN 0 - 1 ELSE 1
  IN  [nan |-> FALSE, num |-> sgn * (num \div g), den |-> sgn * (den \div g)]

\* one pixel of (b1 - b2) / (b1 + b2) after the outliers are removed: 0/0 is
\* nan, x/0 is +-inf, and everything outside [-1, 1] is set to nan
NormalizedIndex(b1, b2) ==
  IF b1 + b2 = 0 THEN NaN
  ELSE IF Abs(b1 - b2) > Abs(b1 + b2) THEN NaN
  ELSE Fraction(b1 - b2, b1 + b2)

\* with the two bands taken at the zero-based indices k1 and k2
IndexOfBands(dataset, k1, k2) ==
  LET ds_band1 == Band(dataset, k1)
      ds_band2 == Band(dataset, k2)
  IN  [shape |-> ds_band1.shape,
       val |-> [idx \in DOMAIN ds_band1.val |->
                  NormalizedIndex(ds_band1.val[idx], ds_band2.val[idx])]]

normalizedDifference(input, band1, band2, meta, output, fs) ==
  LET c == NdCheckInput(input, meta)
  IN  IF ~c.ok THEN [result |-> c.err, meta |-> meta, files |-> fs]
      ELSE IF band1 + 1 >= c.dataset.shape[1]
        THEN [result |-> Raised("IndexError", "band1", "compute"), meta |-> meta, files |-> fs]
      ELSE IF band2 + 1 >= c.dataset.shape[1]
        THEN [result |-> Raised("IndexError", "band2", "compute"), meta |-> meta, files |-> fs]
      ELSE LET normalized_index == IndexOfBands(c.dataset, band1 + 1, band2 + 1)
               m2 == DictUpdate(c.meta, [dtype |-> "float32"])
           IN  IF output # NoneVal
                 THEN LET w == writeRaster(normalized_index, output, m2, <<"l","z","w">>)
                      IN  [result |-> ReturnedNone,
                           meta |-> IF c.alias THEN w.meta ELSE meta,
                           files |-> Append(fs, w.file)]
               ELSE [result |-> Returned(normalized_index, m2, c.alias),
                     meta |-> IF c.alias THEN m2 ELSE meta, files |-> fs]

\* ------------------------------------- listFiles (common), list_files (tools)
UpperChar(c) ==
  IF \E i \in DOMAIN LowerAlpha : LowerAlpha[i] = c
    THEN UpperAlpha[CHOOSE i \in DOMAIN LowerAlpha : LowerAlpha[i] = c]
    ELSE c

\* str.upper()
Upper(s) == [i \in 1..Len(s) |-> UpperChar(s[i])]

\* c in s
Contains(s, c) == \E i \in 1..Len(s) : s[i] = c

\* s.endswith(suffix)
EndsWith(s, suffix) ==
  /\ Len(suffix) <= Len(s)
  /\ SubSeq(s, Len(s) - Len(suffix) + 1, Len(s)) = suffix

\* os.path.join(root, file)
Join(root, file) ==
  IF root = <<>> THEN file
  ELSE IF root[Len(root)] = "/" THEN root \o file
  ELSE root \o <<"/">> \o file

\* fnmatch on a POSIX system: '*' matches any run of characters, every other
\* character of these patterns matches itself, case-sensitively
RECURSIVE fnmatch(_, _)
fnmatch(name, pat) ==
  IF pat = <<>> THEN name = <<>>
  ELSE IF Head(pat) = "*"
    THEN fnmatch(name, Tail(pat)) \/ (name # <<>> /\ fnmatch(Tail(name), pat))
  ELSE name # <<>> /\ Head(name) = Head(pat) /\ fnmatch(Tail(name), Tail(pat))

\* the append of one directory's selected files
Listed(root, names, full_name) ==
  [i \in 1..Len(names) |-> IF full_name THEN Join(root, names[i]) ELSE names[i]]

\* the loop over os.walk(path), extension search
RECURSIVE WalkExtension(_, _, _)
WalkExtension(walk, pattern, full_name) ==
  IF walk = <<>> THEN <<>>
  ELSE Listed(Head(walk).root,
              SelectSeq(Head(walk).files, LAMBDA f : EndsWith(Lower(f), pattern)),
              full_name)
         \o WalkExtension(Tail(walk), pattern, full_name)

\* the loop over os.walk(path), pattern search
RECURSIVE WalkPattern(_, _, _)
WalkPattern(walk, pattern, full_name) ==
  IF walk = <<>> THEN <<>>
  ELSE Listed(Head(walk).root,
              SelectSeq(Head(walk).files, LAMBDA f : fnmatch(f, pattern)),
              full_name)
         \o WalkPattern(Tail(walk), pattern, full_name)

ListRaised(about) == [status |-> "raised", exc |-> "ValueError", about |-> about, list |-> <<>>]

ListReturned(l) == [status |-> "returned", exc |-> "", about |-> "", list |-> l]

\* common.listFiles
listFiles(walk, pattern, search_type, full_name) ==
  IF Upper(search_type) = <<"E","X","T","E","N","S","I","O","N">> \/ Upper(search_type) = <<"E">>
    THEN IF Contains(pattern, "*")
           THEN ListRaised("Do not use '*' in the pattern of extension search")
           ELSE ListReturned(WalkExtension(walk, pattern, full_name))
  ELSE IF Upper(search_type) = <<"P","A","T","T","E","R","N">> \/ Upper(search_type) = <<"P">>
    THEN IF ~Contains(pattern, "*")
           THEN ListRaised("Pattern search requires '*' in pattern")
           ELSE ListReturned(WalkPattern(walk, pattern, full_name))
  ELSE ListRaised("Search pattern must be one of these types (pattern, p, extension, e)")

\* tools.list_files
list_files(walk, pattern, search_type, full_name) ==
  IF Lower(search_type) = <<"e","x","t","e","n","s","i","o","n">> \/ Lower(search_type) = <<"e">>
    THEN IF Contains(pattern, "*")
           THEN ListRaised("Do not use '*' in the pattern of extension search")
           ELSE ListReturned(WalkExtension(walk, pattern, full_name))
  ELSE IF Lower(search_type) = <<"p","a","t","t","e","r","n">> \/ Lower(search_type) = <<"p">>
    THEN IF ~Contains(pattern, "*")
           THEN ListRaised("Pattern search requires '*' in the pattern")
           ELSE ListReturned(WalkPattern(walk, pattern, full_name))
  ELSE ListRaised("search pattern are: pattern, p, extension, e")

\* what os.walk(path) yields: the folder, then its sub-folder
Walks ==
  {<<>>}
    \cup {<<[root |-> <<"d">>, files |-> f1], [root |-> <<"d","/","s">>, files |-> f2]>> :
            f1 \in {<<>>, <<<<"a",".","s","h","p">>>>, <<<<"a",".","s","h","p">>, <<"B",".","S","H","P">>>>},
            f2 \in {<<>>, <<<<"c",".","t","i","f">>>>}}

SearchTypes ==
  {<<"p","a","t","t","e","r","n">>, <<"p">>, <<"e","x","t","e","n","s","i","o","n">>, <<"e">>, <<"E">>, <<"P","a","t","t","e","r","n">>, <<"e","x","t">>, <<>>}

Patterns == {<<"*","s","h","p">>, <<"s","h","p">>, <<".","s","h","p">>, <<"*",".","t","i","f">>, <<"*">>, <<>>}

ListFilesArgs ==
  {[fn |-> "listFiles", module |-> m, walk |-> w, pattern |-> pt, search_type |-> st,
    full_name |-> fl] :
     m \in {"common", "tools"}, w \in Walks, pt \in Patterns, st \in SearchTypes,
     fl \in BOOLEAN}

\* ------------------------------------------------ numbers cast to a dtype
DTypes ==
  {"int8", "uint8", "int16", "uint16", "int32", "uint32", "float16", "float32", "float64"}

\* an array element: a number, an infinity, or v + 2^32 (a negative number
\* wrapped into uint32)
Num(v) == [kind |-> "num", v |-> v]

Inf(v) == [kind |-> IF v < 0 THEN "-inf" ELSE "inf", v |-> 0]

Mod32(v) == [kind |-> "mod32", v |-> v]

\* the bounds of the small integer dtypes
IntMin(dtype) ==
  CASE dtype = "int8" -> 0 - 128
    [] dtype = "int16" -> 0 - 32768
    [] OTHER -> 0

IntSpan(dtype) == IF dtype \in {"int8", "uint8"} THEN 256 ELSE 65536

RECURSIVE ExcessBits16(_, _)
ExcessBits16(n, k) == IF n \div Pow2(k) < Pow2(11) THEN k ELSE ExcessBits16(n, k + 1)

\* conversion of a non-negative number below 65520 to float16: round to
\* nearest, ties to even, on an 11-bit significand
Round16(n) ==
  LET k == ExcessBits16(n, 0)
      d == Pow2(k)
      qd == n \div d
      r == n % d
  IN  IF k = 0 THEN n
      ELSE IF (2 * r > d) \/ (2 * r = d /\ qd % 2 = 1)
        THEN (qd + 1) * d
        ELSE qd * d

Sign(v) == IF v < 0 THEN 0 - 1 ELSE 1

\* np.asarray(v, dtype) of a Python int, as masked_array.filled(v) does it.
\* An integer out of the dtype's range is wrapped by the older numpy
\* releases and refused (TypeError from filled) by the newer ones.
CastFill(v, dtype, np) ==
  IF dtype \in {"int8", "uint8", "int16", "uint16"}
    THEN IF v >= IntMin(dtype) /\ v < IntMin(dtype) + IntSpan(dtype)
           THEN [ok |-> TRUE, val |-> Num(v)]
         ELSE IF np = "raise" THEN [ok |-> FALSE, val |-> Num(0)]
         ELSE [ok |-> TRUE,
               val |-> Num(((v - IntMin(dtype)) % IntSpan(dtype)) + IntMin(dtype))]
  ELSE IF dtype = "uint32"
    THEN IF v >= 0 THEN [ok |-> TRUE, val |-> Num(v)]
         ELSE IF np = "raise" THEN [ok |-> FALSE, val |-> Num(0)]
         ELSE [ok |-> TRUE, val |-> Mod32(v)]
  ELSE IF dtype = "float16"
    THEN IF Abs(v) >= 65520 THEN [ok |-> TRUE, val |-> Inf(v)]
         ELSE [ok |-> TRUE, val |-> Num(Sign(v) * Round16(Abs(v)))]
  ELSE IF dtype = "float32"
    THEN [ok |-> TRUE, val |-> Num(Sign(v) * Round32(Abs(v)))]
  ELSE [ok |-> TRUE, val |-> Num(v)]

\* ------------------------------------- crop, mask, extractValues (raster.py)
\* the file every one of the three writes an array input to
TmpPath == [path |-> "./tmp/tmp.tif"]

\* rast(path): the raster handle of a written file
rast(file) ==
  [kind |-> "handle", count |-> file.profile.count, height |-> file.profile.height,
   width |-> file.profile.width, dtype |-> file.profile.dtype,
   transform |-> file.profile.transform, data |-> file.array.val]

\* '### Define input image': the handle, or the array written to the
\* temporary file and opened again
DefineInput(input, meta) ==
  IF input.kind = "handle"
    THEN [ok |-> TRUE, err |-> NoError, image |-> input, meta |-> meta, tmp |-> <<>>]
  ELSE IF input.kind = "array"
    THEN IF meta = NoneVal
           THEN [ok |-> FALSE, err |-> Raised("ValueError", "It requires metadata of input", "input"),
                 image |-> NoneVal, meta |-> meta, tmp |-> <<>>]
         ELSE LET w == writeRaster([shape |-> input.shape, val |-> input.val], TmpPath,
                                   meta, <<"l","z","w">>)
              IN  [ok |-> TRUE, err |-> NoError, image |-> rast(w.file), meta |-> w.meta,
                   tmp |-> <<w.file>>]
  ELSE [ok |-> FALSE, err |-> Raised("ValueError", "Input data is not supported", "input"),
        image |-> NoneVal, meta |-> meta, tmp |-> <<>>]

\* '### Define nodata'.  nodata is <<>> for None.  Three branches compare
\* (==) where the others assign, and leave nodata_value without a value.
DefineNodata(nodata, dataType) ==
  IF nodata = <<>>
    THEN CASE dataType = "int8" -> [bound |-> TRUE, value |-> 127]
           [] dataType = "uint8" -> [bound |-> TRUE, value |-> 255]
           [] dataType = "int16" -> [bound |-> TRUE, value |-> 32767]
           [] dataType = "uint16" -> [bound |-> TRUE, value |-> 65535]
           [] dataType = "int32" -> [bound |-> TRUE, value |-> 2147483647]
           [] dataType = "uint32" -> [bound |-> FALSE, value |-> 0]
           [] dataType = "float16" -> [bound |-> TRUE, value |-> 65500]
           [] dataType = "float32" -> [bound |-> FALSE, value |-> 0]
           [] OTHER -> [bound |-> FALSE, value |-> 0]
    ELSE [bound |-> TRUE, value |-> nodata[1]]

NodataUnbound == Raised("UnboundLocalError", "nodata_value", "nodata")

\* A shape on a raster of one row: the interval lo..hi of the x axis, in
\* quarters of a pixel from the raster's left edge.  lo and hi are odd, so
\* they fall neither on a pixel edge nor on a pixel centre.
\* the columns of the window rasterio crops to
FirstCol(shape) == shape.lo \div 4 + 1

LastCol(shape, width) ==
  IF (shape.hi + 3) \div 4 < width THEN (shape.hi + 3) \div 4 ELSE width

\* the pixels whose centre lies in the shape
Inside(shape, c) == shape.lo < 4 * c - 2 /\ 4 * c - 2 < shape.hi

\* rasterio.mask.mask(dataset, shapes, crop=True, nodata=fill)
rasterioMask(image, shape, fill, np) ==
  LET c0 == FirstCol(shape)
      c1 == LastCol(shape, image.width)
      f == CastFill(fill, image.dtype, np)
      sh == <<image.count, 1, c1 - c0 + 1>>
  IN  IF c0 > c1
        THEN [ok |-> FALSE, err |-> Raised("ValueError", "Input shapes do not overlap raster.", "mask"),
              out |-> NoArray, transform |-> image.transform]
      ELSE IF ~f.ok
        THEN [ok |-> FALSE, err |-> Raised("TypeError", "Cannot convert fill_value", "mask"),
              out |-> NoArray, transform |-> image.transform]
      ELSE [ok |-> TRUE, err |-> NoError,
            out |-> [shape |-> sh,
                     val |-> [idx \in Indices(sh) |->
                                IF Inside(shape, c0 + idx[3] - 1)
                                  THEN Num(image.data[<<idx[1], 1, c0 + idx[3] - 1>>])
                                  ELSE f.val]],
            transform |-> [image.transform EXCEPT
                             ![3] = image.transform[3] + image.transform[1] * (c0 - 1)]]

\* the value the crop's mask call is given, whatever nodata_value is
CropFill == 0 - 999999

\* what each of the three hands back: the result, the caller's dict
\* afterwards, the files written, the temporary file written
Outcome(res, meta, fs, tmp) == [result |-> res, meta |-> meta, files |-> fs, tmp |-> tmp]

\* crop(input, reference, input_meta, nodata=nodata, output=output), with a
\* GeoDataFrame as reference and invert left False
crop(input, reference, input_meta, nodata, output, np) ==
  LET d == DefineInput(input, input_meta)
  IN  IF ~d.ok THEN Outcome(d.err, d.meta, <<>>, d.tmp)
      ELSE IF reference.kind # "vector"
        THEN Outcome(Raised("ValueError", "Reference data is not supported", "reference"),
                     d.meta, <<>>, d.tmp)
      ELSE LET nd == DefineNodata(nodata, HandleMeta(d.image).dtype)
           IN  IF ~nd.bound THEN Outcome(NodataUnbound, d.meta, <<>>, d.tmp)
               ELSE LET m == rasterioMask(d.image, reference, CropFill, np)
                        meta == DictUpdate(HandleMeta(d.image),
                                  [height |-> IF m.ok THEN m.out.shape[2] ELSE 0,
                                   width |-> IF m.ok THEN m.out.shape[3] ELSE 0,
                                   transform |-> m.transform,
                                   dtype |-> "float32", nodata |-> nd.value])
                    IN  IF ~m.ok THEN Outcome(m.err, d.meta, <<>>, d.tmp)
                        ELSE IF output # NoneVal
                          THEN Outcome(ReturnedNone, d.meta,
                                       <<writeRaster(m.out, output, meta, <<"l","z","w">>).file>>,
                                       d.tmp)
                        ELSE Outcome(Returned(m.out, meta, FALSE), d.meta, <<>>, d.tmp)

\* mask(input, reference, input_meta, nodata=nodata, output=output), invert
\* left False.  A GeoDataFrame has no attribute 'transform'; of a raster
\* reference the shape is the footprint of its valid pixels.
mask(input, reference, input_meta, nodata, output, np) ==
  LET d == DefineInput(input, input_meta)
  IN  IF ~d.ok THEN Outcome(d.err, d.meta, <<>>, d.tmp)
      ELSE IF reference.kind = "vector"
        THEN Outcome(Raised("AttributeError", "transform", "reference"), d.meta, <<>>, d.tmp)
      ELSE IF reference.kind # "raster"
        THEN Outcome(Raised("ValueError", "Data is not supported", "reference"),
                     d.meta, <<>>, d.tmp)
      ELSE LET nd == DefineNodata(nodata, HandleMeta(d.image).dtype)
           IN  IF ~nd.bound THEN Outcome(NodataUnbound, d.meta, <<>>, d.tmp)
               ELSE LET m == rasterioMask(d.image, reference, nd.value, np)
                        meta == DictUpdate(HandleMeta(d.image),
                                  [height |-> IF m.ok THEN m.out.shape[2] ELSE 0,
                                   width |-> IF m.ok THEN m.out.shape[3] ELSE 0,
                                   transform |-> m.transform,
                                   dtype |-> "float32", nodata |-> nd.value])
                    IN  IF ~m.ok THEN Outcome(m.err, d.meta, <<>>, d.tmp)
                        ELSE IF output # NoneVal
                          THEN Outcome(ReturnedNone, d.meta,
                                       <<writeRaster(m.out, output, meta, <<"l","z","w">>).file>>,
                                       d.tmp)
                        ELSE Outcome(Returned(m.out, meta, FALSE), d.meta, <<>>, d.tmp)

\* f'B{i}'
BandNames == <<"B1", "B2", "B3">>

\* reshape_as_image(cropped).reshape(-1, nbands): one row per pixel, one
\* column per band
PixelRows(cropped) ==
  [j \in 1..cropped.shape[3] |-> [b \in 1..cropped.shape[1] |-> cropped.val[<<b, 1, j>>]]]

\* the loop over the features of roi: X and y, row by row; stops at the first
\* feature that rasterio refuses
RECURSIVE ExtractLoop(_, _, _, _, _, _)
ExtractLoop(image, roi, i, fill, np, acc) ==
  IF i > Len(roi) THEN acc
  ELSE LET m == rasterioMask(image, roi[i], fill, np)
       IN  IF ~m.ok THEN [acc EXCEPT !.ok = FALSE, !.err = m.err]
           ELSE LET rows == PixelRows(m.out)
                IN  ExtractLoop(image, roi, i + 1, fill, np,
                      [acc EXCEPT !.X = @ \o rows,
                                  !.y = @ \o [j \in 1..Len(rows) |-> Num(roi[i].label)]])

\* data[~(data == nodata_value).any(axis=1)] on np.hstack((X, y)); the arrays
\* of these calls hold no NaN
KeepRow(X, y, k, nodata_value) ==
  /\ \A b \in 1..Len(X[k]) : X[k][b] # Num(nodata_value)
  /\ y[k] # Num(nodata_value)

RECURSIVE Kept(_, _, _, _)
Kept(X, y, k, nodata_value) ==
  IF k > Len(X) THEN <<>>
  ELSE (IF KeepRow(X, y, k, nodata_value) THEN <<k>> ELSE <<>>)
         \o Kept(X, y, k + 1, nodata_value)

DataFrame(arr, columns) == [kind |-> "dataframe", columns |-> columns, rows |-> arr]

\* extractValues(input, roi, field, meta, dataframe, na_rm=na_rm,
\* nodata=nodata, tail=tail), names and prefix left None.  field is <<>> for
\* None.
extractValues(input, roi, field, meta, dataframe, na_rm, nodata, tail, np) ==
  IF field = <<>>
    THEN Outcome(Raised("ValueError", "Please provide field name", "input"), meta, <<>>, <<>>)
  ELSE
  LET d == DefineInput(input, meta)
  IN  IF ~d.ok THEN Outcome(d.err, d.meta, <<>>, d.tmp)
      ELSE LET nd == DefineNodata(nodata, HandleMeta(d.image).dtype)
           IN  IF ~nd.bound THEN Outcome(NodataUnbound, d.meta, <<>>, d.tmp)
               ELSE
               LET nbands == d.image.count
                   e == ExtractLoop(d.image, roi, 1, nd.value, np,
                                    [ok |-> TRUE, err |-> NoError, X |-> <<>>, y |-> <<>>])
                   keep == Kept(e.X, e.y, 1, nd.value)
                   X_na == [k \in 1..Len(keep) |-> e.X[keep[k]]]
                   y_na == [k \in 1..Len(keep) |-> e.y[keep[k]]]
                   names_band == SubSeq(BandNames, 1, nbands)
                   names_list == IF tail THEN names_band \o <<field[1]>>
                                 ELSE <<field[1]>> \o names_band
               IN  IF ~e.ok THEN Outcome(e.err, d.meta, <<>>, d.tmp)
                   ELSE IF na_rm
                     THEN IF dataframe
                            THEN LET arr == [k \in 1..Len(keep) |->
                                               IF tail THEN X_na[k] \o <<y_na[k]>>
                                               ELSE <<y_na[k]>> \o X_na[k]]
                                 IN  Outcome(Returned(DataFrame(arr, names_list), NoneVal, FALSE),
                                             d.meta, <<>>, d.tmp)
                          ELSE Outcome(Returned([kind |-> "arrays", X |-> X_na, y |-> y_na],
                                                NoneVal, FALSE), d.meta, <<>>, d.tmp)
                   ELSE IF dataframe
                     THEN LET arr == [k \in 1..Len(e.X) |-> e.X[k] \o <<e.y[k]>>]
                          IN  Outcome(Returned(DataFrame(arr, names_list), NoneVal, FALSE),
                                      d.meta, <<>>, d.tmp)
                   ELSE Outcome(Returned([kind |-> "arrays", X |-> e.X, y |-> e.y],
                                         NoneVal, FALSE), d.meta, <<>>, d.tmp)

\* rasters of one row and MaxWidth columns; band b holds 10 * b + column
RasterData(count) ==
  [idx \in Indices(<<count, 1, MaxWidth>>) |-> 10 * idx[1] + idx[3]]

RasterHandle(count, dtype) ==
  [kind |-> "handle", count |-> count, height |-> 1, width |-> MaxWidth,
   dtype |-> dtype, transform |-> SampleTransform, data |-> RasterData(count)]

RasterArray(count) ==
  [kind |-> "array", shape |-> <<count, 1, MaxWidth>>, val |-> RasterData(count)]

RasterMeta(dtype) ==
  DictUpdate(MakeMeta(<<SampleTransform>>, <<1>>, <<MaxWidth>>), [dtype |-> dtype])

\* shapes over and beside the raster, in quarters of a pixel
Shapes ==
  {[lo |-> lo, hi |-> hi] :
     lo \in {2 * k + 1 : k \in 0..(2 * MaxWidth + 1)},
     hi \in {2 * k + 1 : k \in 0..(2 * MaxWidth + 1)}}

ShapeSet == {sh \in Shapes : sh.lo < sh.hi}

References ==
  {[kind |-> k, lo |-> sh.lo, hi |-> sh.hi] : k \in {"vector", "raster"}, sh \in ShapeSet}
    \cup {[kind |-> "other", lo |-> 1, hi |-> 3]}

Nodatas == {<<>>, <<0>>, <<CropFill>>}

NumpyCasts == {"wrap", "raise"}

\* an input with the metadata given along with it
InputsWithMeta(count) ==
  {<<RasterHandle(count, dt), NoneVal>> : dt \in DTypes}
    \cup {<<RasterArray(count), m>> :
            m \in {NoneVal, RasterMeta("int16"), RasterMeta("float32")}}
    \cup {<<OtherInput, NoneVal>>}

CropMaskArgs ==
  {[fn |-> f, input |-> im[1], reference |-> ref, input_meta |-> im[2], nodata |-> nd,
    output |-> o, np |-> np] :
     f \in {"crop", "mask"}, im \in InputsWithMeta(1), ref \in References,
     nd \in Nodatas, o \in {NoneVal, OutPath}, np \in NumpyCasts}

\* features of a shapefile with their label
Rois ==
  {<<[lo |-> 1, hi |-> 7, label |-> 7]>>,
   <<[lo |-> 3, hi |-> 9, label |-> 7], [lo |-> 5, hi |-> 11, label |-> 8]>>,
   <<[lo |-> 5, hi |-> 7, label |-> 8]>>}

ExtractValuesArgs ==
  {[fn |-> "extractValues", input |-> im[1], roi |-> roi, field |-> fd, meta |-> im[2],
    dataframe |-> df, na_rm |-> na, nodata |-> nd, tail |-> tl, np |-> np] :
     im \in InputsWithMeta(2), roi \in Rois, fd \in {<<>>, <<"class">>},
     df \in BOOLEAN, na \in BOOLEAN, nd \in {<<>>, <<0>>, <<21>>}, tl \in BOOLEAN,
     np \in NumpyCasts}

\* --------------------------- concurrent crop / mask / extractValues on arrays
\* Two invocations, each given an array with its metadata, run at the same
\* time.  Each writes its array to ./tmp/tmp.tif and opens that path again;
\* the pixels of an open raster are read when rasterio.mask.mask asks for them.
OtherData == [idx \in Indices(<<1, 1, MaxWidth>>) |-> 100 + 10 * idx[1] + idx[3]]

NewJob(fn, input, meta) ==
  [pc |-> "check", fn |-> fn, input |-> input, meta |-> meta, seen |-> FALSE,
   wrote |-> <<>>, opened |-> <<>>, readFrom |-> <<>>, result |-> IdleResult]

JobInputs == {RasterArray(1), [RasterArray(1) EXCEPT !.val = OtherData]}

InitTmp ==
  /\ \E dir \in BOOLEAN : disk = [dir |-> dir, tmp |-> <<>>]
  /\ \E f1 \in {"crop", "mask", "extractValues"}, f2 \in {"crop", "mask", "extractValues"},
        i2 \in JobInputs, m1 \in {NoneVal, RasterMeta("int16")},
        m2 \in {NoneVal, RasterMeta("int16")} :
       jobs = [t \in Tids |-> IF t = 1 THEN NewJob(f1, RasterArray(1), m1)
                              ELSE NewJob(f2, i2, m2)]
  /\ SeqIdle
  /\ ConcIdle
  /\ FnIdle

JobDone(j, res) == [j EXCEPT !.pc = "done", !.result = res]

\* isinstance(input, np.ndarray), 'if input_meta is None', and the look at
\* os.path.exists('./tmp/')
TmpCheck(t) ==
  /\ jobs[t].pc = "check"
  /\ jobs' = [jobs EXCEPT ![t] =
       IF jobs[t].meta = NoneVal
         THEN JobDone(jobs[t], Raised("ValueError", "It requires metadata of input", "input"))
       ELSE [jobs[t] EXCEPT !.seen = disk.dir,
                            !.pc = IF disk.dir THEN "write" ELSE "makedirs"]]
  /\ UNCHANGED <<disk, seqVars, concVars, fnVars>>

\* os.makedirs('./tmp/'): FileExistsError when the folder is there by now
TmpMakedirs(t) ==
  /\ jobs[t].pc = "makedirs"
  /\ IF disk.dir
       THEN /\ jobs' = [jobs EXCEPT ![t] =
                 JobDone(jobs[t], Raised("FileExistsError", "./tmp/", "input"))]
            /\ disk' = disk
       ELSE /\ jobs' = [jobs EXCEPT ![t] = [jobs[t] EXCEPT !.pc = "write"]]
            /\ disk' = [disk EXCEPT !.dir = TRUE]
  /\ UNCHANGED <<seqVars, concVars, fnVars>>

\* writeRaster(input, './tmp/tmp.tif', input_meta)
TmpWrite(t) ==
  /\ jobs[t].pc = "write"
  /\ LET w == writeRaster([shape |-> jobs[t].input.shape, val |-> jobs[t].input.val],
                          TmpPath, jobs[t].meta, <<"l","z","w">>)
     IN  /\ disk' = [disk EXCEPT !.tmp = <<w.file>>]
         /\ jobs' = [jobs EXCEPT ![t] =
              [jobs[t] EXCEPT !.pc = "open", !.wrote = <<w.file>>, !.meta = w.meta]]
  /\ UNCHANGED <<seqVars, concVars, fnVars>>

\* input_image = rast('./tmp/tmp.tif')
TmpOpen(t) ==
  /\ jobs[t].pc = "open"
  /\ jobs' = [jobs EXCEPT ![t] = [jobs[t] EXCEPT !.pc = "process", !.opened = disk.tmp]]
  /\ UNCHANGED <<disk, seqVars, concVars, fnVars>>

\* the rest of the function on input_image
Rest(fn, image) ==
  IF fn = "crop"
    THEN crop(image, [kind |-> "vector", lo |-> 1, hi |-> 7], NoneVal, <<0>>, NoneVal, "wrap")
  ELSE IF fn = "mask"
    THEN mask(image, [kind |-> "raster", lo |-> 1, hi |-> 7], NoneVal, <<0>>, NoneVal, "wrap")
  ELSE extractValues(image, <<[lo |-> 1, hi |-> 7, label |-> 7]>>, <<"class">>, NoneVal,
                     TRUE, TRUE, <<0>>, TRUE, "wrap")

\* the image an open raster gives when its pixels are read: the header as it
\* was opened, the pixels of the file as it is now
ReadBack(opened, now) == [rast(opened) EXCEPT !.data = now.array.val]

\* the rest of the function, once the pixels are read
TmpProcess(t) ==
  /\ jobs[t].pc = "process"
  /\ jobs' = [jobs EXCEPT ![t] =
       [jobs[t] EXCEPT !.pc = "done", !.readFrom = disk.tmp,
                       !.result = Rest(jobs[t].fn,
                                       ReadBack(jobs[t].opened[1], disk.tmp[1])).result]]
  /\ UNCHANGED <<disk, seqVars, concVars, fnVars>>

NextTmp ==
  \E t \in Tids :
    \/ TmpCheck(t)
    \/ TmpMakedirs(t)
    \/ TmpWrite(t)
    \/ TmpOpen(t)
    \/ TmpProcess(t)

SpecTmp == InitTmp /\ [][NextTmp]_vars

\* ------------------------------------------------ calls of the functions
FnMeta == MakeMeta(<<SampleTransform>>, <<1>>, <<2>>)

\* arrays of the given shape with pixel values from vals
ArraysOf(sh, vals) == {[kind |-> "array", shape |-> sh, val |-> v] : v \in [Indices(sh) -> vals]}

\* an open raster with the given pixels
HandleOf(a) ==
  [kind |-> "handle", count |-> a.shape[1], height |-> a.shape[2], width |-> a.shape[3],
   dtype |-> "int16", transform |-> SampleTransform, data |-> a.val]

\* strictly increasing lists of numbers from 0..MaxBreak
RECURSIVE SortedSeq(_)
SortedSeq(S) ==
  IF S = {} THEN <<>>
  ELSE LET m == CHOOSE x \in S : \A y \in S : x <= y
       IN  <<m>> \o SortedSeq(S \ {m})

Breakpoints == {SortedSeq(S) : S \in SUBSET (0..MaxBreak)}

ClassLabels == <<7, 8, 9>>

Classes == {SubSeq(ClassLabels, 1, n) : n \in 1..Len(ClassLabels)}

RcInputs ==
  LET one == ArraysOf(<<1, 1, 2>>, 0..MaxVal)
      two == ArraysOf(<<2, 1, 1>>, 0..MaxVal)
  IN  ArraysOf(<<1, 2>>, 0..MaxVal) \cup one \cup two
        \cup {HandleOf(a) : a \in one \cup two} \cup {OtherInput}

ReclassifyArgs ==
  {[fn |-> "reclassify", input |-> a, breakpoints |-> bp, classes |-> cl,
    meta |-> m, output |-> o] :
     a \in RcInputs, bp \in Breakpoints, cl \in Classes,
     m \in {NoneVal, FnMeta}, o \in {NoneVal, OutPath}}

NdArrays == UNION {ArraysOf(<<b, 1, 1>>, (0 - 1)..MaxVal) : b \in 2..MaxNdBands}

NdSample == [kind |-> "array", shape |-> <<3, 1, 1>>,
             val |-> [idx \in Indices(<<3, 1, 1>>) |-> idx[1] - 1]]

NormalizedDifferenceArgs ==
  UNION {{[fn |-> "normalizedDifference", input |-> a, band1 |-> b1, band2 |-> b2,
           meta |-> FnMeta, output |-> o] :
            b1 \in 1..a.shape[1], b2 \in 1..a.shape[1], o \in {NoneVal, OutPath}} :
         a \in NdArrays}
  \cup
  {[fn |-> "normalizedDifference", input |-> a, band1 |-> b1, band2 |-> 1,
    meta |-> NoneVal, output |-> NoneVal] :
     a \in {NdSample, HandleOf(NdSample), OtherInput}, b1 \in 1..3}

InitFn ==
  /\ fnArgs \in Meter2DegreeArgs \cup ReclassifyArgs \cup NormalizedDifferenceArgs
                  \cup ListFilesArgs \cup CropMaskArgs \cup ExtractValuesArgs
  /\ fnRet = NoneVal
  /\ SeqIdle
  /\ ConcIdle
  /\ TmpIdle

CallMeter2Degree ==
  /\ fnRet = NoneVal
  /\ fnArgs.fn = "meter2degree"
  /\ fnRet' = meter2degree(fnArgs.module, fnArgs.input, fnArgs.latitude)
  /\ UNCHANGED <<fnArgs, seqVars, concVars, tmpVars>>

CallReclassify ==
  /\ fnRet = NoneVal
  /\ fnArgs.fn = "reclassify"
  /\ fnRet' = reclassify(fnArgs.input, fnArgs.breakpoints, fnArgs.classes,
                         fnArgs.meta, fnArgs.output, <<>>)
  /\ UNCHANGED <<fnArgs, seqVars, concVars, tmpVars>>

CallNormalizedDifference ==
  /\ fnRet = NoneVal
  /\ fnArgs.fn = "normalizedDifference"
  /\ fnRet' = normalizedDifference(fnArgs.input, fnArgs.band1, fnArgs.band2,
                                   fnArgs.meta, fnArgs.output, <<>>)
  /\ UNCHANGED <<fnArgs, seqVars, concVars, tmpVars>>

CallListFiles ==
  /\ fnRet = NoneVal
  /\ fnArgs.fn = "listFiles"
  /\ fnRet' = IF fnArgs.module = "common"
                THEN listFiles(fnArgs.walk, fnArgs.pattern, fnArgs.search_type,
                               fnArgs.full_name)
                ELSE list_files(fnArgs.walk, fnArgs.pattern, fnArgs.search_type,
                                fnArgs.full_name)
  /\ UNCHANGED <<fnArgs, seqVars, concVars, tmpVars>>

CallCrop ==
  /\ fnRet = NoneVal
  /\ fnArgs.fn = "crop"
  /\ fnRet' = crop(fnArgs.input, fnArgs.reference, fnArgs.input_meta, fnArgs.nodata,
                   fnArgs.output, fnArgs.np)
  /\ UNCHANGED <<fnArgs, seqVars, concVars, tmpVars>>

CallMask ==
  /\ fnRet = NoneVal
  /\ fnArgs.fn = "mask"
  /\ fnRet' = mask(fnArgs.input, fnArgs.reference, fnArgs.input_meta, fnArgs.nodata,
                   fnArgs.output, fnArgs.np)
  /\ UNCHANGED <<fnArgs, seqVars, concVars, tmpVars>>

CallExtractValues ==
  /\ fnRet = NoneVal
  /\ fnArgs.fn = "extractValues"
  /\ fnRet' = extractValues(fnArgs.input, fnArgs.roi, fnArgs.field, fnArgs.meta,
                            fnArgs.dataframe, fnArgs.na_rm, fnArgs.nodata, fnArgs.tail,
                            fnArgs.np)
  /\ UNCHANGED <<fnArgs, seqVars, concVars, tmpVars>>

NextFn ==
  \/ CallMeter2Degree
  \/ CallReclassify
  \/ CallNormalizedDifference
  \/ CallListFiles
  \/ CallCrop
  \/ CallMask
  \/ CallExtractValues

SpecFn == InitFn /\ [][NextFn]_vars

\* ================================================================== claims
\* the spellings the specification lists, written out
KmTokens ==
  { <<"k","m">>, <<"K","m">>, <<"k","M">>, <<"K","M">>,
    <<"k","i","l","o","m","e","t","e","r">>, <<"K","i","l","o","m","e","t","e","r">>,
    <<"K","I","L","O","M","E","T","E","R">> }

MeterTokens ==
  { <<"m">>, <<"M">>, <<"m","e","t","e","r">>, <<"M","e","t","e","r">>,
    <<"M","E","T","E","R">> }

HectareTokens ==
  { <<"h","a">>, <<"H","a">>, <<"h","A">>, <<"H","A">>,
    <<"h","e","c","t","a","r","e">>, <<"H","e","c","t","a","r","e">>,
    <<"H","E","C","T","A","R","E">> }

AcceptedTokens == KmTokens \cup MeterTokens \cup HectareTokens

RequiredKeys == {"transform", "height", "width"}

Called == ncalls > 0

\* the call was given an array together with a metadata mapping
ArrayWithMeta == callInput.kind = "array" /\ metaBefore # NoneVal

\* the metadata the call works from
UsedMeta == IF callInput.kind = "handle" THEN HandleMeta(callInput) ELSE metaBefore

\* C1: a call whose unit token is none of km, kilometer, m, meter, ha, hectare
\* (in any letter case), and which is otherwise well-formed, ends in a
\* ValueError that is about the unit.
C1_InvalidUnitError ==
  (Called /\ callUnit \notin AcceptedTokens /\ CellArea(callInput, metaBefore).ok)
    => (result.status = "raised" /\ result.exc = "ValueError" /\ result.about = "unit")

\* C2: after a call with an array and a caller-supplied mapping, the caller's
\* mapping is what it was before the call, and metadata that is returned is
\* another object than the caller's.
C2_CallerMetaUntouched ==
  (Called /\ ArrayWithMeta)
    => (callerMeta = metaBefore /\ (result.status = "returned" => ~result.alias))

\* C3: the metadata a call returns has the keys of the metadata it worked from
\* plus dtype and count, dtype is float32, count is 1, and every other field
\* (transform, height, width, crs, ...) has the value it had.
C3_ReturnedMetaFrame ==
  (result.status = "returned")
    => /\ DOMAIN result.meta = (DOMAIN UsedMeta) \cup {"dtype", "count"}
       /\ result.meta["dtype"] = "float32"
       /\ result.meta["count"] = 1
       /\ \A k \in (DOMAIN UsedMeta) \ {"dtype", "count"} : result.meta[k] = UsedMeta[k]

C3_Witness ==
  /\ result.status = "returned"
  /\ callInput.kind = "array"
  /\ metaBefore["count"] = 3
  /\ metaBefore["dtype"] = "int16"
  /\ result.meta["crs"] = "EPSG:4326"
  /\ result.meta["transform"] = SampleTransform

\* C4: a call with an array and no metadata, with an array and metadata that
\* lacks transform, height or width, or with an input that is neither handle
\* nor array, raises before the areas are computed, returns no array and
\* writes nothing.
C4_MissingMetadataFails ==
  (Called /\ (\/ callInput.kind = "other"
              \/ (callInput.kind = "array" /\ metaBefore = NoneVal)
              \/ (ArrayWithMeta /\ ~(RequiredKeys \subseteq DOMAIN metaBefore))))
    => /\ result.status = "raised"
       /\ result.stage \in {"input", "meta"}
       /\ result.out = NoArray
       /\ files = filesBefore

C4_Witness ==
  /\ Called
  /\ ArrayWithMeta
  /\ callInput.shape = <<2, 2>>
  /\ DOMAIN metaBefore = {"dtype", "count", "crs", "transform", "height"}
  /\ result.exc = "KeyError"
  /\ result.about = "width"

\* C5: a call whose metadata has height <= 0 or width <= 0 fails: it raises
\* and returns no array.
C5_NonPositiveShapeRejected ==
  (Called /\ ArrayWithMeta /\ RequiredKeys \subseteq DOMAIN metaBefore
     /\ (metaBefore["height"] <= 0 \/ metaBefore["width"] <= 0))
    => (result.status = "raised" /\ result.out = NoArray)

\* C6: a call with a rows x cols array, metadata of that height and width, an
\* accepted unit and no output path returns a rows x cols array.
C6_Array2DSucceeds ==
  (Called /\ ArrayWithMeta /\ Len(callInput.shape) = 2
     /\ RequiredKeys \subseteq DOMAIN metaBefore
     /\ metaBefore["height"] = callInput.shape[1]
     /\ metaBefore["width"] = callInput.shape[2]
     /\ callUnit \in AcceptedTokens /\ callOutput = NoneVal)
    => /\ result.status = "returned"
       /\ result.out.shape = callInput.shape
       /\ DOMAIN result.out.val = Indices(callInput.shape)

\* C7: a call with a bands x rows x cols input (an array with metadata of that
\* height and width, or a handle), an accepted unit and no output path returns
\* a bands x rows x cols array whose bands all hold the per-row areas.
C7_BandsReplicated ==
  (Called /\ callUnit \in AcceptedTokens /\ callOutput = NoneVal
     /\ \/ callInput.kind = "handle"
        \/ (ArrayWithMeta /\ Len(callInput.shape) = 3
              /\ RequiredKeys \subseteq DOMAIN metaBefore
              /\ metaBefore["height"] = callInput.shape[2]
              /\ metaBefore["width"] = callInput.shape[3]))
    => LET full == IF callInput.kind = "handle" THEN ReadAll(callInput)
                   ELSE callInput.shape
       IN  /\ result.status = "returned"
           /\ result.out.shape = full
           /\ DOMAIN result.out.val = Indices(full)
           /\ \A idx \in Indices(full) :
                result.out.val[idx] = result.out.val[<<1, idx[2], 1>>]

\* C8: in a returned array every pixel of a row has the value of the row's
\* first pixel, and every band equals the first band.
C8_BroadcastInvariant ==
  (result.status = "returned")
    => LET a == result.out
       IN  \A idx \in DOMAIN a.val :
             a.val[idx] = IF Len(a.shape) = 2 THEN a.val[<<idx[1], 1>>]
                          ELSE a.val[<<1, idx[2], 1>>]

C8_Witness ==
  /\ result.status = "returned"
  /\ result.out.shape = <<2, 2, 2>>
  /\ result.out.val[<<1, 1, 1>>] # result.out.val[<<1, 2, 1>>]
  /\ result.out.val[<<2, 2, 2>>] > 0

\* C9: the array returned for unit m or meter is, element by element, the
\* array returned for unit km on the same input and metadata times 1,000,000,
\* and the one for ha or hectare is that array times 10,000 (float32 products).
C9_UnitConversionExact ==
  (result.status = "returned"
     /\ callUnit \in {<<"m">>, <<"m","e","t","e","r">>, <<"h","a">>,
                      <<"h","e","c","t","a","r","e">>})
    => LET km == cellSize(callInput, <<"k","m">>, metaBefore, callOutput, filesBefore).result
           f == IF callUnit \in {<<"m">>, <<"m","e","t","e","r">>} THEN 1000000 ELSE 10000
       IN  /\ km.status = "returned"
           /\ result.out.shape = km.out.shape
           /\ DOMAIN result.out.val = DOMAIN km.out.val
           /\ \A idx \in DOMAIN km.out.val :
                result.out.val[idx] = Mul32(km.out.val[idx], f)

C9_Witness ==
  /\ result.status = "returned"
  /\ callUnit = <<"m","e","t","e","r">>
  /\ result.out.shape = <<2, 2>>
  /\ result.out.val[<<1, 1>>] >= 1000000

\* C10: a call with one of the six tokens in any letter case fares as the
\* computation of the km2 areas fares, and what it returns or writes is those
\* areas times 1 (km, kilometer), 1,000,000 (m, meter) or 10,000 (ha, hectare).
C10_UnitTokensAccepted ==
  (Called /\ callUnit \in AcceptedTokens)
    => LET p == CellArea(callInput, metaBefore)
           f == IF callUnit \in KmTokens THEN 1
                ELSE IF callUnit \in MeterTokens THEN 1000000 ELSE 10000
           scaled == [shape |-> p.cellArea.shape,
                      val |-> [idx \in DOMAIN p.cellArea.val |-> Mul32(p.cellArea.val[idx], f)]]
       IN  IF ~p.ok THEN result = p.err
           ELSE IF callOutput = NoneVal
             THEN result.status = "returned" /\ result.out = scaled
             ELSE result.status = "none" /\ files[Len(files)].array = scaled

C10_Witness ==
  /\ result.status = "returned"
  /\ callUnit = <<"H","E","C","T","A","R","E">>
  /\ result.out.shape = <<2, 2, 2>>
  /\ result.out.val[<<1, 1, 1>>] >= 10000

\* the rows of a returned array, and the value of a row
NRows(a) == IF Len(a.shape) = 2 THEN a.shape[1] ELSE a.shape[2]

RowVal(a, r) == IF Len(a.shape) = 2 THEN a.val[<<r, 1>>] ELSE a.val[<<1, r, 1>>]

\* C11: a well-formed call writes exactly one raster when an output path is
\* given and none when it is not, and in both cases it returns the area array
\* and the updated metadata.
C11_WriteOnceAndReturn ==
  (Called /\ callUnit \in AcceptedTokens /\ CellArea(callInput, metaBefore).ok)
    => /\ callOutput # NoneVal => Len(files) = Len(filesBefore) + 1
       /\ callOutput = NoneVal => files = filesBefore
       /\ result.status = "returned"
       /\ result.out = ConvertUnit(callUnit, CellArea(callInput, metaBefore).cellArea).outArea
       /\ result.meta # NoneVal

\* C12: a call that follows a call with the same arguments, the metadata
\* mapping being the very object the first call was given and updated, ends
\* as the first one did: same array, same metadata, same exception.
C12_RepeatedCallSame ==
  [][(ncalls >= 1 /\ ncalls' = ncalls + 1)
       => /\ result'.status = result.status
          /\ result'.exc = result.exc
          /\ result'.about = result.about
          /\ result'.out = result.out
          /\ result'.meta = result.meta]_vars

C12_Witness ==
  /\ ncalls = 2
  /\ ArrayWithMeta
  /\ metaBefore["dtype"] = "float32"
  /\ metaBefore["count"] = 1
  /\ result.status = "returned"
  /\ result.out.shape = <<2, 2>>

\* C14: every value of a returned array is non-negative, for negative and for
\* positive pixel height; for unit km the value of row r is the absolute
\* difference of the cumulative areas at the row's two bounding latitudes
\* times pixel width / 360.
C14_AreasNonNegative ==
  (result.status = "returned")
    => /\ \A idx \in DOMAIN result.out.val : result.out.val[idx] >= 0
       /\ (callUnit \in KmTokens /\ NRows(result.out) = UsedMeta["height"])
            => \A r \in 1..NRows(result.out) :
                 LET t == UsedMeta["transform"]
                     top == t[6] + (r - 1) * t[5]
                     bottom == t[6] + r * t[5]
                 IN  RowVal(result.out, r) =
                       Round32((Abs(AreaToEquator(bottom) - AreaToEquator(top)) * t[1])
                                 \div (360 * 1000))

C14_Witness ==
  /\ result.status = "returned"
  /\ callInput.kind = "handle"
  /\ callInput.transform[5] > 0
  /\ callInput.transform[6] = 0
  /\ callInput.height = 3
  /\ RowVal(result.out, 1) > 0
  /\ RowVal(result.out, 3) > 0

\* the raster the call worked on runs from the equator to a pole
EquatorToPole ==
  LET t == UsedMeta["transform"]
      lower == t[6] + t[5] * UsedMeta["height"]
  IN  \/ t[6] = 0 /\ Abs(lower) = 90
      \/ Abs(t[6]) = 90 /\ lower = 0

SymmetricAboutEquator ==
  LET t == UsedMeta["transform"]
      lower == t[6] + t[5] * UsedMeta["height"]
  IN  t[6] # 0 /\ Abs(t[6]) <= 90 /\ lower = 0 - t[6]

\* C16: for a raster symmetric about the equator, row i from the top has the
\* area of row i from the bottom.
C16_EquatorSymmetry ==
  (result.status = "returned" /\ SymmetricAboutEquator
     /\ NRows(result.out) = UsedMeta["height"])
    => \A r \in 1..NRows(result.out) :
         RowVal(result.out, r) = RowVal(result.out, NRows(result.out) + 1 - r)

C16_Witness ==
  /\ result.status = "returned"
  /\ callInput.kind = "handle"
  /\ callInput.transform[6] = 60
  /\ callInput.height = 4
  /\ RowVal(result.out, 2) = RowVal(result.out, 3)
  /\ RowVal(result.out, 1) < RowVal(result.out, 2)

\* C13: an invocation that ran concurrently with another ends as the same
\* call ends when it runs alone on the arguments as they were when it began:
\* same array and metadata returned, same exception, same raster written.
C13_ConcurrentAsAlone ==
  \A t \in DOMAIN threads :
    threads[t].pc = "done"
      => LET th == threads[t]
             alone == cellSize(th.input, th.unit, th.metaAtStart, th.output, <<>>)
         IN  /\ th.result = alone.result
             /\ th.written = alone.files

\* the same, for invocations that were given different dicts
C13_SeparateMetaAsAlone ==
  (DOMAIN threads # {} /\ threads[1].ref # threads[2].ref) => C13_ConcurrentAsAlone

\* ------------------------------------------------------ meter2degree claims
FnCalled(fn) == fnArgs # NoneVal /\ fnRet # NoneVal /\ fnArgs.fn = fn

\* C17: at latitude 90 or -90 meter2degree raises or returns an infinite
\* value, never a finite number.
C17_PoleNeverFinite ==
  (/\ FnCalled("meter2degree")
   /\ fnArgs.latitude.given /\ ~fnArgs.latitude.none
   /\ Abs(fnArgs.latitude.deg) = 90)
    => fnRet.kind \in {"raised", "inf"}

\* C18: with the latitude left out, every definition of meter2degree returns
\* what it returns at latitude 0, which is distance / 111320.
C18_OmittedLatitudeIsEquator ==
  (FnCalled("meter2degree") /\ ~fnArgs.latitude.given)
    => /\ fnRet = meter2degree(fnArgs.module, fnArgs.input, Lat(0))
       /\ fnRet = Float("finite", fnArgs.input, MetersPerDegree, 0)

\* the same, for the definition in common alone
C18_CommonOmittedIsEquator ==
  (FnCalled("meter2degree") /\ fnArgs.module = "common") => C18_OmittedLatitudeIsEquator

\* -------------------------------------------------------- reclassify claim
\* what reclassify hands back: the returned array, or the array written
Produced(ret) ==
  IF ret.result.status = "returned" THEN ret.result.out
  ELSE IF ret.result.status = "none" /\ Len(ret.files) = 1 THEN ret.files[1].array
  ELSE NoArray

\* an image of one band, with the metadata an array needs
OneBand(args) ==
  \/ args.input.kind = "handle" /\ args.input.count = 1
  \/ /\ args.input.kind = "array"
     /\ args.meta # NoneVal
     /\ ~(Len(args.input.shape) > 2 /\ args.input.shape[1] > 1)

\* C19: with len(classes) = len(breakpoints) - 1 reclassify succeeds whatever
\* the number of distinct pixel values, and every pixel v with
\* breakpoints[i] <= v < breakpoints[i+1] becomes classes[i].
C19_IntervalsReclassified ==
  (/\ FnCalled("reclassify")
   /\ OneBand(fnArgs)
   /\ Len(fnArgs.classes) = Len(fnArgs.breakpoints) - 1)
    => /\ fnRet.result.status # "raised"
       /\ LET out == Produced(fnRet)
              src == IF fnArgs.input.kind = "handle" THEN fnArgs.input.data
                     ELSE fnArgs.input.val
          IN  /\ DOMAIN out.val = DOMAIN src
              /\ \A idx \in DOMAIN src : \A i \in 1..Len(fnArgs.classes) :
                   InInterval(src[idx], fnArgs.breakpoints, i)
                     => out.val[idx] = fnArgs.classes[i]

\* the same, when the image has another number of distinct values than there
\* are classes
C19_IntervalsWhenCountsDiffer ==
  (/\ FnCalled("reclassify")
   /\ OneBand(fnArgs)
   /\ Cardinality({(IF fnArgs.input.kind = "handle" THEN fnArgs.input.data
                    ELSE fnArgs.input.val)[idx] :
                      idx \in DOMAIN (IF fnArgs.input.kind = "handle" THEN fnArgs.input.data
                                      ELSE fnArgs.input.val)})
        # Len(fnArgs.classes))
    => C19_IntervalsReclassified

\* ---------------------------------------------- normalizedDifference claim
\* C20: for valid band numbers band1 and band2 (counted from one, as in
\* normalizedDifference(img, 4, 3)) the result is (B1 - B2) / (B1 + B2) of the
\* band1-th and band2-th bands.
C20_BandsInBandOrder ==
  (/\ FnCalled("normalizedDifference")
   /\ fnArgs.input.kind = "array" /\ fnArgs.meta # NoneVal
   /\ fnArgs.band1 \in 1..fnArgs.input.shape[1]
   /\ fnArgs.band2 \in 1..fnArgs.input.shape[1])
    => /\ fnRet.result.status # "raised"
       /\ Produced(fnRet) = IndexOfBands([shape |-> fnArgs.input.shape,
                                          val |-> fnArgs.input.val],
                                         fnArgs.band1 - 1, fnArgs.band2 - 1)

\* ------------------------------------------------- reclassify, band check
\* the number of bands of the image handed to reclassify
NBands(input) ==
  IF input.kind = "handle" THEN input.count
  ELSE IF input.kind = "array" /\ Len(input.shape) > 2 THEN input.shape[1]
  ELSE 1

\* C21: reclassify rejects every input of more than one band with the
\* message 'Input data has more than one band', raster handle and array
\* (given with its metadata) alike.
C21_MultibandRejected ==
  (/\ FnCalled("reclassify")
   /\ fnArgs.input.kind \in {"handle", "array"}
   /\ fnArgs.input.kind = "array" => fnArgs.meta # NoneVal
   /\ NBands(fnArgs.input) > 1)
    => /\ fnRet.result.status = "raised"
       /\ fnRet.result.exc = "ValueError"
       /\ fnRet.result.about = "Input data has more than one band"

\* the same, for arrays alone
C21_MultibandArrayRejected ==
  (FnCalled("reclassify") /\ fnArgs.input.kind = "array") => C21_MultibandRejected

\* --------------------------------------------------------- listFiles claim
\* the calls the rule names: an unknown search type, an extension search
\* with '*' in the pattern, a pattern search without '*'
BadSearch(args) ==
  LET st == Lower(args.search_type)
      ext == st \in {<<"e","x","t","e","n","s","i","o","n">>, <<"e">>}
      pat == st \in {<<"p","a","t","t","e","r","n">>, <<"p">>}
  IN  \/ ~ext /\ ~pat
      \/ ext /\ Contains(args.pattern, "*")
      \/ pat /\ ~Contains(args.pattern, "*")

\* every file of the folder tree, by name and by full path
FilesOf(walk) ==
  UNION {UNION {{walk[i].files[j], Join(walk[i].root, walk[i].files[j])} :
                  j \in 1..Len(walk[i].files)} : i \in 1..Len(walk)}

\* ValueError exactly on the calls the rule names, a list of files of the
\* folder otherwise
C22_RaisesExactlyOnBadSearch ==
  FnCalled("listFiles")
    => /\ (fnRet.status = "raised" /\ fnRet.exc = "ValueError") <=> BadSearch(fnArgs)
       /\ ~BadSearch(fnArgs)
            => /\ fnRet.status = "returned"
               /\ \A i \in 1..Len(fnRet.list) : fnRet.list[i] \in FilesOf(fnArgs.walk)

\* C22: listFiles / list_files raises ValueError exactly on an unknown search
\* type, an extension search with '*' in the pattern, or a pattern search
\* without '*'; every other call, and the documented call with pattern '*shp'
\* and search_type 'e', returns a list of files without raising.
C22_DocumentedCallReturns ==
  /\ C22_RaisesExactlyOnBadSearch
  /\ (/\ FnCalled("listFiles")
      /\ fnArgs.pattern = <<"*","s","h","p">>
      /\ fnArgs.search_type = <<"e">>)
       => fnRet.status = "returned"

\* ------------------------------------------------- cellSize, band count
\* the number of bands of an array: one for (rows, cols), else the first axis
BandsOf(arr) == IF Len(arr.shape) = 2 THEN 1 ELSE arr.shape[1]

\* C26: the band count in the metadata cellSize returns is the number of
\* bands of the array it returns.
C26_CountMatchesBands ==
  result.status = "returned" => result.meta.count = BandsOf(result.out)

\* the same, for the calls that return an array of rows and columns
C26_CountOfSingleBand ==
  (result.status = "returned" /\ Len(result.out.shape) = 2) => result.meta.count = 1

\* ------------------------------------------ crop, mask, extractValues claims
\* a number as two 16-bit halves, so that 4294967295 can be written
Split(v) == [hi |-> v \div 65536, lo |-> v % 65536]

\* the nodata value the rule gives each dtype
ExpectedNodata(dtype) ==
  CASE dtype = "int8" -> Split(127)
    [] dtype = "uint8" -> Split(255)
    [] dtype = "int16" -> Split(32767)
    [] dtype = "uint16" -> Split(65535)
    [] dtype = "int32" -> Split(2147483647)
    [] dtype = "uint32" -> [hi |-> 65535, lo |-> 65535]
    [] dtype = "float16" -> Split(65500)
    [] dtype = "float32" -> Split(999999)
    [] OTHER -> Split(0)

\* the metadata argument of the call
MetaArg(args) == IF args.fn = "extractValues" THEN args.meta ELSE args.input_meta

\* a call that gives the function what it asks for: a raster, or an array
\* with its metadata; a reference of the kind it can use, over the raster;
\* a field name
WellFormed(args) ==
  /\ args.input.kind = "handle" \/ (args.input.kind = "array" /\ MetaArg(args) # NoneVal)
  /\ args.fn = "crop" => args.reference.kind = "vector"
  /\ args.fn = "mask" => args.reference.kind = "raster"
  /\ args.fn \in {"crop", "mask"}
       => FirstCol(args.reference) <= LastCol(args.reference, MaxWidth)
  /\ args.fn = "extractValues" => args.field # <<>>

\* the dtype of the image the function works on
ImageDtype(args) ==
  IF args.input.kind = "handle" THEN args.input.dtype ELSE MetaArg(args).dtype

\* the metadata handed back, returned or written with the raster
ProducedMeta(ret) ==
  IF ret.result.status = "returned" THEN ret.result.meta ELSE ret.files[1].profile

Completed(ret) ==
  \/ ret.result.status = "returned"
  \/ ret.result.status = "none" /\ Len(ret.files) = 1

\* C23: with nodata None, crop, mask and extractValues take the nodata value
\* of the input dtype (int8 127, uint8 255, int16 32767, uint16 65535, int32
\* 2147483647, uint32 4294967295, float16 65500, float32 999999, else 0) and
\* run to completion with it (on a numpy that wraps an out-of-range fill
\* value, so that nothing but the nodata selection can stop the call).
C23_NodataFromDtype ==
  (/\ fnArgs # NoneVal /\ fnRet # NoneVal
   /\ fnArgs.fn \in {"crop", "mask", "extractValues"}
   /\ WellFormed(fnArgs)
   /\ fnArgs.nodata = <<>>
   /\ fnArgs.np = "wrap")
    => /\ Completed(fnRet)
       /\ fnArgs.fn \in {"crop", "mask"}
            => Split(ProducedMeta(fnRet).nodata) = ExpectedNodata(ImageDtype(fnArgs))

\* the same, for the dtypes whose branch assigns the value
C23_AssignedDtypes ==
  (fnArgs # NoneVal
     /\ fnArgs.fn \in {"crop", "mask", "extractValues"}
     /\ WellFormed(fnArgs)
     /\ ImageDtype(fnArgs) \in {"int8", "uint8", "int16", "uint16", "int32", "float16"})
    => C23_NodataFromDtype

\* the rows of a dataframe read by column name: the band values and the label
ColumnOf(df, name) == CHOOSE i \in 1..Len(df.columns) : df.columns[i] = name

ByName(df, row, field, nbands) ==
  [X |-> [b \in 1..nbands |-> row[ColumnOf(df, BandNames[b])]],
   y |-> row[ColumnOf(df, field)]]

\* C25: in every dataframe extractValues returns, the column named after the
\* field holds the labels and each band column that band's pixel values,
\* whatever na_rm and tail are.
C25_ColumnsHoldTheirValues ==
  (/\ FnCalled("extractValues")
   /\ fnRet.result.status = "returned"
   /\ fnRet.result.out.kind = "dataframe")
    => LET image == DefineInput(fnArgs.input, fnArgs.meta).image
           nd == DefineNodata(fnArgs.nodata, image.dtype)
           e == ExtractLoop(image, fnArgs.roi, 1, nd.value, fnArgs.np,
                            [ok |-> TRUE, err |-> NoError, X |-> <<>>, y |-> <<>>])
           df == fnRet.result.out
       IN  /\ \A r \in 1..Len(df.rows) :
                \E k \in 1..Len(e.X) :
                  ByName(df, df.rows[r], fnArgs.field[1], image.count)
                    = [X |-> e.X[k], y |-> e.y[k]]
           /\ ~fnArgs.na_rm
                => /\ Len(df.rows) = Len(e.X)
                   /\ \A k \in 1..Len(e.X) :
                        ByName(df, df.rows[k], fnArgs.field[1], image.count)
                          = [X |-> e.X[k], y |-> e.y[k]]

\* the same, for every combination but na_rm False with tail False
C25_ColumnsWhenTailOrNaRm ==
  (FnCalled("extractValues") /\ (fnArgs.na_rm \/ fnArgs.tail)) => C25_ColumnsHoldTheirValues

\* the array crop hands back, returned or written
ProducedArray(ret) ==
  IF ret.result.status = "returned" THEN ret.result.out ELSE ret.files[1].array

\* C27: the nodata value in the metadata crop hands back is the value the
\* pixels outside the crop shape hold in the array, for a nodata given by
\* the caller and for the dtype default.
C27_NodataIsFillValue ==
  (FnCalled("crop") /\ Completed(fnRet))
    => LET out == ProducedArray(fnRet)
           c0 == FirstCol(fnArgs.reference)
       IN  \A idx \in DOMAIN out.val :
             ~Inside(fnArgs.reference, c0 + idx[3] - 1)
               => out.val[idx] = Num(ProducedMeta(fnRet).nodata)

\* the same, when the caller asks for the very value crop fills with
C27_WhenNodataIsCropFill ==
  (/\ FnCalled("crop")
   /\ WellFormed(fnArgs)
   /\ fnArgs.nodata = <<CropFill>>
   /\ ImageDtype(fnArgs) \in {"int32", "float32", "float64"})
    => C27_NodataIsFillValue

\* ------------------------------------------------ the temporary raster
\* C24: of two interleaved invocations of crop, mask and extractValues on
\* arrays, each reads back the temporary raster it wrote itself, never the
\* other's.
C24_ReadsBackOwnRaster ==
  \A t \in DOMAIN jobs :
    jobs[t].opened # <<>>
      => /\ jobs[t].opened = jobs[t].wrote
         /\ jobs[t].readFrom # <<>> => jobs[t].readFrom = jobs[t].wrote

\* the same, when the two invocations were given equal arrays and metadata
C24_EqualInputsReadBack ==
  (jobs # <<>> /\ jobs[1].input = jobs[2].input) => C24_ReadsBackOwnRaster

====
